---- MODULE Spec2Model ----
(***************************************************************************)
(* Bridge orchestrator of fluxshiftAPP-backend: the CCTP burn / attest /   *)
(* mint lifecycle of src/src/services/cctp.service.ts driven against the   *)
(* transfer store (src/src/models/user.model.ts), the custodial signing    *)
(* client (src/src/services/circleWallet.service.ts) and the attestation   *)
(* oracle.  Every `await` of the TypeScript code is a point where another  *)
(* invocation may run, so each operation is cut into one action per        *)
(* store access or external call.                                          *)
(***************************************************************************)
EXTENDS Integers, Sequences, FiniteSets, TLC

\* ---------------------------------------------------------------- bounds
\* Transfers the store may hold.
MaxTransfers == 1
\* Contract-execution requests the signing service may receive in one run.
MaxTx == 4
\* Poll budget of waitForTransaction (60 in the code).
TxMaxAttempts == 2
\* Poll budget of waitForAttestation (60 in the code).
AttMaxAttempts == 2

\* Invocations the callers make in one run.
MaxInvocations == 2

\* ------------------------------------------------------ nullable strings
\* A nullable string is a tuple: Null is JavaScript's null, EmptyStr is ''.
Null == <<>>
EmptyStr == <<"">>
\* JavaScript truthiness of a nullable string.
Truthy(v) == v # Null /\ v # EmptyStr
\* a || b on nullable strings.
OrElse(a, b) == IF Truthy(a) THEN a ELSE b

\* ------------------------------------------------------- chain registry
ChainKeys == {"ETH_SEPOLIA", "ARB_SEPOLIA"}

CHAINS ==
  [k \in ChainKeys |->
     IF k = "ETH_SEPOLIA"
     THEN [cctpDomain |-> 0, circleBlockchain |-> "ETH-SEPOLIA",
           usdc |-> "usdc:ETH", tokenMessenger |-> "tokenMessenger:ETH",
           messageTransmitter |-> "messageTransmitter:ETH"]
     ELSE [cctpDomain |-> 3, circleBlockchain |-> "ARB-SEPOLIA",
           usdc |-> "usdc:ARB", tokenMessenger |-> "tokenMessenger:ARB",
           messageTransmitter |-> "messageTransmitter:ARB"]]

\* CHAINS[key] !== undefined
KnownChain(k) == k \in ChainKeys

\* ----------------------------------------------------------------- users
\* A 20-byte address: its bytes are b+1, b+2, ... (mod 256).
Address(b) == [i \in 1..20 |-> (b + i) % 256]

\* The users of the store and their custodial wallets.  u1 holds a wallet on
\* both chains, u2 only on ETH-SEPOLIA.
Users == {"u1", "u2"}

walletAddresses ==
  [u \in Users |->
     IF u = "u1"
     THEN { [blockchain |-> "ETH-SEPOLIA", address |-> Address(17),
             walletId |-> "w:u1:ETH"],
            [blockchain |-> "ARB-SEPOLIA", address |-> Address(18),
             walletId |-> "w:u1:ARB"] }
     ELSE { [blockchain |-> "ETH-SEPOLIA", address |-> Address(33),
             walletId |-> "w:u2:ETH"] }]

NoWallet == "undefined"

\* userStore.getWalletIdForBlockchain
getWalletIdForBlockchain(userId, blockchain) ==
  IF userId \notin Users THEN NoWallet
  ELSE LET ws == {w \in walletAddresses[userId] : w.blockchain = blockchain}
       IN IF ws = {} THEN NoWallet ELSE (CHOOSE w \in ws : TRUE).walletId

\* userService.getWalletIdForChainKey
getWalletIdForChainKey(userId, chainKey) ==
  IF ~KnownChain(chainKey) THEN NoWallet
  ELSE getWalletIdForBlockchain(userId, CHAINS[chainKey].circleBlockchain)

\* user?.walletAddresses.find(wa => wa.blockchain === blockchain)?.address
walletAddressOf(userId, blockchain) ==
  IF userId \notin Users THEN Null
  ELSE LET ws == {w \in walletAddresses[userId] : w.blockchain = blockchain}
       IN IF ws = {} THEN Null ELSE (CHOOSE w \in ws : TRUE).address

\* --------------------------------------------------------------- amounts
\* A decimal string "W.F" is [whole |-> W, frac |-> <<digits of F>>].
RECURSIVE Pow10(_)
Pow10(n) == IF n = 0 THEN 1 ELSE 10 * Pow10(n - 1)

RECURSIVE DigitsValue(_)
DigitsValue(ds) ==
  IF ds = <<>> THEN 0 ELSE 10 * DigitsValue(SubSeq(ds, 1, Len(ds) - 1)) + ds[Len(ds)]

USDC_DECIMALS == 6

\* ethers.parseUnits(amount, 6): the value in base units.
parseUsdcAmount(amount) ==
  amount.whole * Pow10(USDC_DECIMALS)
    + DigitsValue(amount.frac) * Pow10(USDC_DECIMALS - Len(amount.frac))

\* maxFee of the burn call: 1% of the amount, or 1000 units when that is more.
minFee == 1000
feePercent(amountInUnits) == amountInUnits \div 100
\* A faulty fee: the 1% candidate without the minimum.
maxFee_NoMinimum(amountInUnits) == feePercent(amountInUnits)
maxFee(amountInUnits) ==
  IF feePercent(amountInUnits) > minFee THEN feePercent(amountInUnits) ELSE minFee

minFinalityThreshold == 2000

\* A faulty encoding: the zero bytes are put on the right.
addressToBytes32_PadRight(address) ==
  address \o [i \in 1..(32 - Len(address)) |-> 0]

\* ethers.zeroPadValue(address, 32): zero bytes on the left up to 32 bytes.
addressToBytes32(address) == [i \in 1..(32 - Len(address)) |-> 0] \o address

\* '0x' followed by 64 zeros: 32 zero bytes.
destinationCaller == [i \in 1..32 |-> 0]

\* ------------------------------------------------------------ the state
VARIABLES
  transfers,   \* the transfer store: transfers[id] is the record of transfer id
  proc,        \* the invocations in order of arrival: operation, position, locals
  execCalls,   \* every contractExecution request sent to the signing service
  oracle,      \* per burn transaction: what the attestation oracle holds
  clock,       \* new Date(): ticks at every store write
  circleWalletService,  \* the signing client: its cached publicKey, the
               \* public-key requests it has issued, its executeContract calls
  fileStore    \* the file-backed transfer store: transfers, transfersByUser

vars == <<transfers, proc, execCalls, oracle, clock, circleWalletService,
          fileStore>>

Statuses ==
  {"pending", "burning", "waiting_attestation", "ready_to_mint", "minting",
   "completed", "failed"}

\* undefined, as getTransferById returns it for an unknown id
NoTransfer ==
  [id |-> 0, userId |-> "", sourceChain |-> "", destinationChain |-> "",
   amount |-> [whole |-> 0, frac |-> <<>>], status |-> "undefined",
   burnTxHash |-> Null, mintTxHash |-> Null, message |-> Null,
   attestation |-> Null, createdAt |-> 0, updatedAt |-> 0]

\* ------------------------------------------------------- transfer store
\* userStore.createTransfer: the store with one more record, status pending.
createTransfer(ts, userId, sourceChain, destinationChain, amount, now) ==
  Append(ts,
    [id |-> Len(ts) + 1, userId |-> userId, sourceChain |-> sourceChain,
     destinationChain |-> destinationChain, amount |-> amount,
     status |-> "pending", burnTxHash |-> Null, mintTxHash |-> Null,
     message |-> Null, attestation |-> Null, createdAt |-> now,
     updatedAt |-> now])

\* userStore.getTransferById
getTransferById(ts, id) == IF id \in 1..Len(ts) THEN ts[id] ELSE NoTransfer

\* A faulty merge: both timestamps are set on every update.
MergeUpdates_ResetCreatedAt(t, updates, now) ==
  [f \in DOMAIN t |->
     IF f = "updatedAt" \/ f = "createdAt" THEN now
     ELSE IF f \in DOMAIN updates THEN updates[f] ELSE t[f]]

\* { ...transfer, ...updates, updatedAt: new Date() }
MergeUpdates(t, updates, now) ==
  [f \in DOMAIN t |->
     IF f = "updatedAt" THEN now
     ELSE IF f \in DOMAIN updates THEN updates[f] ELSE t[f]]

\* userStore.updateTransfer: an unknown id changes nothing.
updateTransfer(ts, id, updates, now) ==
  IF id \in 1..Len(ts)
  THEN [ts EXCEPT ![id] = MergeUpdates(ts[id], updates, now)]
  ELSE ts

\* ------------------------------------------------------ signing service
\* The hash the chain gives the transaction of request txId.
TxHashOf(txId) == <<"0x", txId>>

\* What one getTransaction poll may show: a terminal state, with or without
\* txHash, or any other state (still pending), or a failed lookup.
PollOutcomes ==
  { [state |-> "CONFIRMED", hasHash |-> TRUE],
    [state |-> "COMPLETE", hasHash |-> TRUE],
    [state |-> "CONFIRMED", hasHash |-> FALSE],
    [state |-> "FAILED", hasHash |-> FALSE],
    [state |-> "DENIED", hasHash |-> FALSE],
    [state |-> "SENT", hasHash |-> FALSE],
    [state |-> "THROWN", hasHash |-> FALSE] }

\* transaction.txHash of a polled record (undefined reads as null)
PolledTxHash(txId, o) == IF o.hasHash THEN TxHashOf(txId) ELSE Null

\* A faulty loop: a FAILED or DENIED transaction is polled again like a pending
\* one.
waitForTransactionStep_FailedIsPending(o, attempt, maxAttempts) ==
  IF o.state = "THROWN" THEN [next |-> "throw", error |-> "Request failed"]
  ELSE IF o.state = "CONFIRMED" \/ o.state = "COMPLETE"
  THEN [next |-> "return", error |-> ""]
  ELSE IF attempt + 1 < maxAttempts
  THEN [next |-> "again", error |-> ""]
  ELSE [next |-> "throw", error |-> "Transaction timed out"]

\* waitForTransaction, one poll at attempt `attempt`: what the loop does next.
\*   "return"  the transaction is returned to the caller
\*   "throw"   an error is raised
\*   "again"   sleep, then poll again
waitForTransactionStep(o, attempt, maxAttempts) ==
  IF o.state = "THROWN" THEN [next |-> "throw", error |-> "Request failed"]
  ELSE IF o.state = "CONFIRMED" \/ o.state = "COMPLETE"
  THEN [next |-> "return", error |-> ""]
  ELSE IF o.state = "FAILED" \/ o.state = "DENIED"
  THEN [next |-> "throw", error |-> "Transaction " \o o.state]
  ELSE IF attempt + 1 < maxAttempts
  THEN [next |-> "again", error |-> ""]
  ELSE [next |-> "throw", error |-> "Transaction timed out"]

\* The request record of one executeContract call.
ContractCall(walletId, contractAddress, abiFunctionSignature, abiParameters, accepted, transferId) ==
  [walletId |-> walletId, contractAddress |-> contractAddress,
   abiFunctionSignature |-> abiFunctionSignature,
   abiParameters |-> abiParameters, feeLevel |-> "HIGH",
   accepted |-> accepted, transferId |-> transferId]

\* ---------------------------------------------------- attestation oracle
OracleStates == {"notfound", "pending", "complete"}

\* The message and attestation the oracle issues for a burn hash.
MessageOf(burnTxHash) == <<"message">> \o burnTxHash
AttestationOf(burnTxHash) == <<"attestation">> \o burnTxHash

\* The answers one GET may give while the oracle holds `held` for the burn:
\* 404, an empty list, a first message (pending or complete), a failure.
OracleAnswers(held) ==
  IF held = "notfound" THEN {"404", "empty", "error"}
  ELSE IF held = "pending" THEN {"pending", "error"}
  ELSE {"complete", "error"}

\* A faulty query: every failure of the request is swallowed and reads as null.
checkAttestation_SwallowAll(answer) ==
  IF answer = "pending" \/ answer = "complete" THEN "response" ELSE "null"

\* checkAttestation: null, the response, or a raised error.
checkAttestation(answer) ==
  IF answer = "404" \/ answer = "empty" THEN "null"
  ELSE IF answer = "error" THEN "throw"
  ELSE "response"

\* A faulty test: any non-null payload counts as the attestation.
IsComplete_AnyResponse(answer) == checkAttestation(answer) = "response"

\* attestation && attestation.messages[0]?.status === 'complete'
IsComplete(answer) == checkAttestation(answer) = "response" /\ answer = "complete"

\* ------------------------------------------------------------ invocations

BridgeRequest(u, s, d, a, r) ==
  [userId |-> u, sourceChainKey |-> s, destChainKey |-> d, amount |-> a,
   recipientAddress |-> r]

DefaultAmount == [whole |-> 0, frac |-> <<2>>]
SmallAmount == [whole |-> 0, frac |-> <<0, 0, 0, 5>>]

\* The requests the callers make: the good request of u1 with each amount; u2,
\* who has no wallet on the destination chain, with and without a recipient; an
\* unknown source chain, an unknown destination chain, and a source chain on
\* which the user has no wallet.
BridgeRequests ==
  { BridgeRequest("u1", "ETH_SEPOLIA", "ARB_SEPOLIA", DefaultAmount, Null),
    BridgeRequest("u1", "ARB_SEPOLIA", "ETH_SEPOLIA", SmallAmount, Null),
    BridgeRequest("u2", "ETH_SEPOLIA", "ARB_SEPOLIA", DefaultAmount, Null),
    BridgeRequest("u2", "ETH_SEPOLIA", "ARB_SEPOLIA", DefaultAmount, Address(99)),
    BridgeRequest("u1", "SOLANA", "ARB_SEPOLIA", DefaultAmount, Null),
    BridgeRequest("u1", "ETH_SEPOLIA", "SOLANA", DefaultAmount, Null),
    BridgeRequest("u2", "ARB_SEPOLIA", "ETH_SEPOLIA", DefaultAmount, Null) }

NoResult == [kind |-> "none", error |-> "", value |-> <<>>]
Ok(v) == [kind |-> "ok", error |-> "", value |-> v]
Err(e) == [kind |-> "error", error |-> e, value |-> <<>>]

IdleProc ==
  [op |-> "idle", pc |-> "idle", transferId |-> 0, userId |-> "",
   sourceChainKey |-> "", destChainKey |-> "",
   amount |-> [whole |-> 0, frac |-> <<>>], recipientAddress |-> Null,
   transfer |-> NoTransfer, walletId |-> NoWallet, txId |-> 0,
   burnTransactionId |-> 0, attempt |-> 0, txHash |-> Null,
   message |-> Null, attestation |-> Null, error |-> "", result |-> NoResult,
   callback |-> "none", notified |-> <<>>, sourceDomain |-> -1]

\* BridgeStatusResult built from a transfer record
BridgeStatusResult(t) ==
  [transferId |-> t.id, status |-> t.status, burnTxHash |-> t.burnTxHash,
   mintTxHash |-> t.mintTxHash, message |-> t.message,
   attestation |-> t.attestation, sourceChain |-> t.sourceChain,
   destinationChain |-> t.destinationChain, amount |-> t.amount]

\* Invocation p is at `me`: a new invocation joins the others.
\* The orchestrator's invocations run on the durable store; the signing client's
\* key cache and the file-backed store are followed in specifications of their
\* own.
Become(p, me) ==
  /\ proc' = IF p > Len(proc) THEN Append(proc, me) ELSE [proc EXCEPT ![p] = me]
  /\ UNCHANGED <<circleWalletService, fileStore>>

\* Invocation p ends: its promise settles with `result`.
Settle(p, me, result) ==
  Become(p,
    [IdleProc EXCEPT !.op = me.op, !.pc = "done", !.transferId = me.transferId,
                     !.result = result, !.notified = me.notified])

Goto(p, me, pc) == Become(p, [me EXCEPT !.pc = pc])

Init ==
  /\ transfers = <<>>
  /\ proc = <<>>
  /\ execCalls = <<>>
  /\ oracle = [t \in 1..MaxTx |-> "notfound"]
  /\ clock = 1
  /\ circleWalletService = [publicKey |-> Null, keyRequests |-> <<>>, calls |-> <<>>]
  /\ fileStore = [transfers |-> <<>>, transfersByUser |-> [u \in Users |-> <<>>]]

\* The errors a rejected executeContract throws: 'Contract execution failed: '
\* followed by the message of the signing service, which may say that the
\* message was already received (its nonce already used).
ExecuteContractErrors ==
  { "Contract execution failed: rejected",
    "Contract execution failed: nonce already used" }

\* circleWalletService.executeContract: the request is sent and the service
\* either accepts it (a transaction with a fresh id) or the call throws.
executeContract(call) == execCalls' = Append(execCalls, call)

\* ------------------------------------------------------- initiateBridge
\* A faulty start: the record is created before the chains and the source
\* wallet are checked.
IbStart_CreateFirst(p, me) ==
  /\ Len(transfers) < MaxTransfers
  /\ transfers' = createTransfer(transfers, me.userId, me.sourceChainKey,
                                 me.destChainKey, me.amount, clock)
  /\ clock' = clock + 1
  /\ IF ~KnownChain(me.sourceChainKey) \/ ~KnownChain(me.destChainKey)
     THEN Settle(p, me, Err("Invalid source or destination chain"))
     ELSE IF getWalletIdForChainKey(me.userId, me.sourceChainKey) = NoWallet
     THEN Settle(p, me, Err("No wallet found for source chain"))
     ELSE Become(p,
            [me EXCEPT !.pc = "ib_set_burning",
                       !.transferId = Len(transfers) + 1,
                       !.walletId = getWalletIdForChainKey(me.userId, me.sourceChainKey)])
  /\ UNCHANGED <<execCalls, oracle>>

\* cctp.service.ts 120-133: chain and wallet checks, then createTransfer.
IbStart(p, me) ==
  IF ~KnownChain(me.sourceChainKey) \/ ~KnownChain(me.destChainKey)
  THEN /\ Settle(p, me, Err("Invalid source or destination chain"))
       /\ UNCHANGED <<transfers, execCalls, oracle, clock>>
  ELSE IF getWalletIdForChainKey(me.userId, me.sourceChainKey) = NoWallet
  THEN /\ Settle(p, me, Err("No wallet found for source chain"))
       /\ UNCHANGED <<transfers, execCalls, oracle, clock>>
  ELSE /\ Len(transfers) < MaxTransfers
       /\ transfers' = createTransfer(transfers, me.userId, me.sourceChainKey,
                                      me.destChainKey, me.amount, clock)
       /\ clock' = clock + 1
       /\ Become(p,
            [me EXCEPT !.pc = "ib_set_burning",
                       !.transferId = Len(transfers) + 1,
                       !.walletId = getWalletIdForChainKey(me.userId, me.sourceChainKey)])
       /\ UNCHANGED <<execCalls, oracle>>

InitiateBridge(p, req) ==
  /\ p = Len(proc) + 1
  /\ IbStart(p, [IdleProc EXCEPT !.op = "initiateBridge",
                                 !.userId = req.userId,
                                 !.sourceChainKey = req.sourceChainKey,
                                 !.destChainKey = req.destChainKey,
                                 !.amount = req.amount,
                                 !.recipientAddress = req.recipientAddress])

\* A faulty step: the approve call is reached without storing burning.
IbSetBurning_NoWrite(p) ==
  /\ proc[p].pc = "ib_set_burning"
  /\ Goto(p, proc[p], "ib_approve")
  /\ UNCHANGED <<transfers, execCalls, oracle, clock>>

\* 136: updateTransfer(transfer.id, { status: 'burning' })
IbSetBurning(p) ==
  /\ proc[p].pc = "ib_set_burning"
  /\ transfers' = updateTransfer(transfers, proc[p].transferId,
                                 [status |-> "burning"], clock)
  /\ clock' = clock + 1
  /\ Goto(p, proc[p], "ib_approve")
  /\ UNCHANGED <<execCalls, oracle>>

\* recipientAddress || user?.walletAddresses.find(...)?.address
destAddress(me) ==
  OrElse(me.recipientAddress,
         walletAddressOf(me.userId, CHAINS[me.destChainKey].circleBlockchain))

\* The parameters of the approve call (157).
ApproveParameters(me) ==
  <<CHAINS[me.sourceChainKey].tokenMessenger, parseUsdcAmount(me.amount)>>

\* A faulty burn: the call carries the source chain's domain id.
BurnParameters_SourceDomain(me) ==
  <<parseUsdcAmount(me.amount), CHAINS[me.sourceChainKey].cctpDomain,
    addressToBytes32(destAddress(me)), CHAINS[me.sourceChainKey].usdc,
    destinationCaller, maxFee(parseUsdcAmount(me.amount)), minFinalityThreshold>>

\* The parameters of the depositForBurn call (187).
BurnParameters(me) ==
  <<parseUsdcAmount(me.amount), CHAINS[me.destChainKey].cctpDomain,
    addressToBytes32(destAddress(me)), CHAINS[me.sourceChainKey].usdc,
    destinationCaller, maxFee(parseUsdcAmount(me.amount)), minFinalityThreshold>>

\* 138-158: resolve the destination address, then send the approve call.
IbApprove(p) ==
  /\ proc[p].pc = "ib_approve"
  /\ LET me == proc[p] IN
     IF ~Truthy(destAddress(me))
     THEN /\ Become(p,
               [me EXCEPT !.pc = "ib_catch",
                          !.error = "No destination address available"])
          /\ UNCHANGED <<transfers, execCalls, oracle, clock>>
     ELSE /\ Len(execCalls) < MaxTx
          /\ \E accepted \in BOOLEAN, e \in ExecuteContractErrors :
               /\ executeContract(ContractCall(me.walletId,
                    CHAINS[me.sourceChainKey].usdc, "approve(address,uint256)",
                    ApproveParameters(me), accepted, me.transferId))
               /\ Become(p,
                    IF accepted
                    THEN [me EXCEPT !.pc = "ib_wait_approve",
                                    !.txId = Len(execCalls) + 1, !.attempt = 0]
                    ELSE [me EXCEPT !.pc = "ib_catch",
                                    !.error = e])
          /\ UNCHANGED <<transfers, oracle, clock>>

\* A faulty wait: an approve that fails or times out is logged and the burn is
\* sent all the same.
IbWaitApprovePoll_IgnoreFailure(p, o) ==
  /\ proc[p].pc = "ib_wait_approve"
  /\ LET me == proc[p]
         step == waitForTransactionStep(o, me.attempt, TxMaxAttempts)
     IN Become(p,
          IF step.next = "again" THEN [me EXCEPT !.attempt = @ + 1]
          ELSE [me EXCEPT !.pc = "ib_burn", !.attempt = 0])
  /\ UNCHANGED <<transfers, execCalls, oracle, clock>>

\* 160: one poll of waitForTransaction(approvalResult.transaction.id)
IbWaitApprovePoll(p, o) ==
  /\ proc[p].pc = "ib_wait_approve"
  /\ LET me == proc[p]
         step == waitForTransactionStep(o, me.attempt, TxMaxAttempts)
     IN Become(p,
          IF step.next = "return" THEN [me EXCEPT !.pc = "ib_burn", !.attempt = 0]
          ELSE IF step.next = "again" THEN [me EXCEPT !.attempt = @ + 1]
          ELSE [me EXCEPT !.pc = "ib_catch", !.attempt = 0,
                          !.error = step.error])
  /\ UNCHANGED <<transfers, execCalls, oracle, clock>>

IbWaitApprove(p) ==
  /\ proc[p].pc = "ib_wait_approve"
  /\ \E o \in PollOutcomes : IbWaitApprovePoll(p, o)

\* 163-188: send the depositForBurn call.
IbBurn(p) ==
  /\ proc[p].pc = "ib_burn"
  /\ Len(execCalls) < MaxTx
  /\ \E accepted \in BOOLEAN, e \in ExecuteContractErrors :
       LET me == proc[p] IN
       /\ executeContract(ContractCall(me.walletId,
            CHAINS[me.sourceChainKey].tokenMessenger,
            "depositForBurn(uint256,uint32,bytes32,address,bytes32,uint256,uint32)",
            BurnParameters(me), accepted, me.transferId))
       /\ Become(p,
            IF accepted
            THEN [me EXCEPT !.pc = "ib_wait_burn", !.txId = Len(execCalls) + 1,
                            !.burnTransactionId = Len(execCalls) + 1,
                            !.attempt = 0]
            ELSE [me EXCEPT !.pc = "ib_catch",
                            !.error = e])
  /\ UNCHANGED <<transfers, oracle, clock>>

\* 190-191: one poll of waitForTransaction(burnResult.transaction.id);
\* burnTxHash = burnTx.transaction.txHash || null
IbWaitBurnPoll(p, o) ==
  /\ proc[p].pc = "ib_wait_burn"
  /\ LET me == proc[p]
         step == waitForTransactionStep(o, me.attempt, TxMaxAttempts)
     IN Become(p,
          IF step.next = "return"
          THEN [me EXCEPT !.pc = "ib_store_burn", !.attempt = 0,
                          !.txHash = OrElse(PolledTxHash(me.txId, o), Null)]
          ELSE IF step.next = "again" THEN [me EXCEPT !.attempt = @ + 1]
          ELSE [me EXCEPT !.pc = "ib_catch", !.attempt = 0,
                          !.error = step.error])
  /\ UNCHANGED <<transfers, execCalls, oracle, clock>>

IbWaitBurn(p) ==
  /\ proc[p].pc = "ib_wait_burn"
  /\ \E o \in PollOutcomes : IbWaitBurnPoll(p, o)

\* 193-201: updateTransfer(waiting_attestation, burnTxHash), then return; inside
\* executeBridgeFlow the flow goes on at line 382.
IbStoreBurn(p) ==
  /\ proc[p].pc = "ib_store_burn"
  /\ LET me == proc[p] IN
     /\ transfers' = updateTransfer(transfers, me.transferId,
          [status |-> "waiting_attestation", burnTxHash |-> me.txHash], clock)
     /\ clock' = clock + 1
     /\ IF me.op = "executeBridgeFlow"
        THEN Goto(p, me, "ef_read")
        ELSE Settle(p, me, Ok([transferId |-> me.transferId,
                               transactionId |-> me.burnTransactionId,
                               status |-> "waiting_attestation"]))
  /\ UNCHANGED <<execCalls, oracle>>

\* A faulty catch: the error is rethrown but the record is not marked failed.
IbCatch_Rethrow(p) ==
  /\ proc[p].pc = "ib_catch"
  /\ Settle(p, proc[p], Err(proc[p].error))
  /\ UNCHANGED <<transfers, execCalls, oracle, clock>>

\* 202-206: catch: updateTransfer(failed), rethrow.
IbCatch(p) ==
  /\ proc[p].pc = "ib_catch"
  /\ transfers' = updateTransfer(transfers, proc[p].transferId,
                                 [status |-> "failed"], clock)
  /\ clock' = clock + 1
  /\ Settle(p, proc[p], Err(proc[p].error))
  /\ UNCHANGED <<execCalls, oracle>>

\* ------------------------------------------------------ getBridgeStatus
\* The oracle's entry for a burn hash (the hash names its transaction).
OracleKey(burnTxHash) == burnTxHash[2]

\* getBridgeStatus returns `status`: alone its promise settles; inside the
\* complete endpoint the handler goes on with the status (part_000 118-120).
GsReturn(p, me, status) ==
  IF me.op = "POST /:transferId/complete"
  THEN Become(p, [me EXCEPT !.pc = "ce_status", !.result = status])
  ELSE Settle(p, me, status)

\* A faulty read: the oracle is queried for every transfer holding a burnTxHash,
\* whatever its status.
GsRead_NoStatusTest(p, me) ==
  LET transfer == getTransferById(transfers, me.transferId) IN
  /\ IF transfer = NoTransfer
     THEN Settle(p, me, Err("Transfer not found"))
     ELSE IF Truthy(transfer.burnTxHash) /\ KnownChain(transfer.sourceChain)
     THEN Become(p,
            [me EXCEPT !.pc = "gs_check", !.transfer = transfer,
                       !.sourceDomain = CHAINS[transfer.sourceChain].cctpDomain])
     ELSE GsReturn(p, [me EXCEPT !.transfer = transfer],
                   Ok(BridgeStatusResult(transfer)))
  /\ UNCHANGED <<transfers, execCalls, oracle, clock>>

\* 317-324 and 354-364: read the record; query the oracle only for a transfer in
\* waiting_attestation that holds a burnTxHash, else return the record.
GsRead(p, me) ==
  LET transfer == getTransferById(transfers, me.transferId) IN
  /\ IF transfer = NoTransfer
     THEN Settle(p, me, Err("Transfer not found"))
     ELSE IF /\ transfer.status = "waiting_attestation"
             /\ Truthy(transfer.burnTxHash)
             /\ KnownChain(transfer.sourceChain)
     THEN Become(p,
            [me EXCEPT !.pc = "gs_check", !.transfer = transfer,
                       !.sourceDomain = CHAINS[transfer.sourceChain].cctpDomain])
     ELSE GsReturn(p, [me EXCEPT !.transfer = transfer],
                   Ok(BridgeStatusResult(transfer)))
  /\ UNCHANGED <<transfers, execCalls, oracle, clock>>

GetBridgeStatus(p, transferId) ==
  /\ p = Len(proc) + 1
  /\ GsRead(p, [IdleProc EXCEPT !.op = "getBridgeStatus",
                                !.transferId = transferId])

\* 326-328, 348-350: the oracle gives `answer`; a complete first message is
\* kept for the write, anything else returns the record read at the start; an
\* error of the query is logged and swallowed.
GsCheckAnswer(p, answer) ==
  /\ proc[p].pc = "gs_check"
  /\ answer \in OracleAnswers(oracle[OracleKey(proc[p].transfer.burnTxHash)])
  /\ LET me == proc[p] IN
       IF IsComplete(answer)
       THEN Become(p,
              [me EXCEPT !.pc = "gs_write",
                         !.message = MessageOf(me.transfer.burnTxHash),
                         !.attestation = AttestationOf(me.transfer.burnTxHash)])
       ELSE GsReturn(p, me, Ok(BridgeStatusResult(me.transfer)))
  /\ UNCHANGED <<transfers, execCalls, oracle, clock>>

\* The answers of the oracle's endpoint.
AllOracleAnswers == {"404", "empty", "pending", "complete", "error"}

GsCheck(p) ==
  /\ proc[p].pc = "gs_check"
  /\ \E answer \in AllOracleAnswers : GsCheckAnswer(p, answer)

\* A faulty write: ready_to_mint is stored with the message alone.
GsWrite_MessageOnly(p) ==
  /\ proc[p].pc = "gs_write"
  /\ transfers' = updateTransfer(transfers, proc[p].transferId,
       [status |-> "ready_to_mint", message |-> proc[p].message], clock)
  /\ clock' = clock + 1
  /\ Goto(p, proc[p], "gs_reread")
  /\ UNCHANGED <<execCalls, oracle>>

\* 329-333: updateTransfer(ready_to_mint, message, attestation)
GsWrite(p) ==
  /\ proc[p].pc = "gs_write"
  /\ transfers' = updateTransfer(transfers, proc[p].transferId,
       [status |-> "ready_to_mint", message |-> proc[p].message,
        attestation |-> proc[p].attestation], clock)
  /\ clock' = clock + 1
  /\ Goto(p, proc[p], "gs_reread")
  /\ UNCHANGED <<execCalls, oracle>>

\* A faulty return: the record read before the write is returned.
GsReread_Stale(p) ==
  /\ proc[p].pc = "gs_reread"
  /\ GsReturn(p, proc[p], Ok(BridgeStatusResult(proc[p].transfer)))
  /\ UNCHANGED <<transfers, execCalls, oracle, clock>>

\* 335-346: read the record again and return it.
GsReread(p) ==
  /\ proc[p].pc = "gs_reread"
  /\ GsReturn(p, proc[p],
       Ok(BridgeStatusResult(getTransferById(transfers, proc[p].transferId))))
  /\ UNCHANGED <<transfers, execCalls, oracle, clock>>

\* ------------------------------------------------------- completeBridge
\* completeBridge returns: alone its promise settles; inside executeBridgeFlow
\* the flow goes on with getBridgeStatus (405).
CbReturn(p, me, mintTxHash) ==
  IF me.op = "executeBridgeFlow"
  THEN Goto(p, me, "gs_read")
  ELSE Settle(p, me, Ok([mintTxHash |-> mintTxHash]))

\* transfer.status === 'completed' && transfer.mintTxHash
AlreadyCompleted(transfer) ==
  transfer.status = "completed" /\ Truthy(transfer.mintTxHash)

\* A faulty read: the destination wallet is not checked.
CbRead_NoWalletCheck(p, me) ==
  LET transfer == getTransferById(transfers, me.transferId) IN
  /\ IF transfer = NoTransfer
     THEN Settle(p, me, Err("Transfer not found"))
     ELSE IF AlreadyCompleted(transfer)
     THEN CbReturn(p, [me EXCEPT !.transfer = transfer], transfer.mintTxHash)
     ELSE Become(p,
            [me EXCEPT !.pc = "cb_set_minting", !.transfer = transfer,
                       !.walletId = getWalletIdForChainKey(me.userId,
                                      transfer.destinationChain)])
  /\ UNCHANGED <<transfers, execCalls, oracle, clock>>

\* 254-274: read the record, return the cached hash of a completed transfer,
\* else look up the destination wallet.
CbRead(p, me) ==
  LET transfer == getTransferById(transfers, me.transferId) IN
  /\ IF transfer = NoTransfer
     THEN Settle(p, me, Err("Transfer not found"))
     ELSE IF AlreadyCompleted(transfer)
     THEN CbReturn(p, [me EXCEPT !.transfer = transfer], transfer.mintTxHash)
     ELSE IF ~KnownChain(transfer.destinationChain)
     THEN Settle(p, me, Err("Invalid destination chain"))
     ELSE IF getWalletIdForChainKey(me.userId, transfer.destinationChain) = NoWallet
     THEN Settle(p, me, Err("No wallet found for destination chain"))
     ELSE Become(p,
            [me EXCEPT !.pc = "cb_set_minting", !.transfer = transfer,
                       !.walletId = getWalletIdForChainKey(me.userId,
                                      transfer.destinationChain)])
  /\ UNCHANGED <<transfers, execCalls, oracle, clock>>

\* The message and attestation a caller may pass for a transfer: the stored
\* pair, or a pair of its own.
PayloadInputs(transferId) ==
  LET t == getTransferById(transfers, transferId) IN
  { [message |-> MessageOf(TxHashOf(0)), attestation |-> AttestationOf(TxHashOf(0))] }
  \cup
  { [message |-> t.message, attestation |-> t.attestation] : x \in
      IF Truthy(t.message) /\ Truthy(t.attestation) THEN {0} ELSE {} }

CompleteBridge(p, transferId, userId, payload) ==
  /\ p = Len(proc) + 1
  /\ CbRead(p, [IdleProc EXCEPT !.op = "completeBridge",
                                !.transferId = transferId,
                                !.userId = userId,
                                !.message = payload.message,
                                !.attestation = payload.attestation])

\* 277: updateTransfer(transferId, { status: 'minting' })
CbSetMinting(p) ==
  /\ proc[p].pc = "cb_set_minting"
  /\ transfers' = updateTransfer(transfers, proc[p].transferId,
                                 [status |-> "minting"], clock)
  /\ clock' = clock + 1
  /\ Goto(p, proc[p], "cb_submit")
  /\ UNCHANGED <<execCalls, oracle>>

\* 287-293: send the receiveMessage call.
CbSubmit(p) ==
  /\ proc[p].pc = "cb_submit"
  /\ Len(execCalls) < MaxTx
  /\ \E accepted \in BOOLEAN, e \in ExecuteContractErrors :
       LET me == proc[p] IN
       /\ executeContract(ContractCall(me.walletId,
            CHAINS[me.transfer.destinationChain].messageTransmitter,
            "receiveMessage(bytes,bytes)", <<me.message, me.attestation>>,
            accepted, me.transferId))
       /\ Become(p,
            IF accepted
            THEN [me EXCEPT !.pc = "cb_wait", !.txId = Len(execCalls) + 1,
                            !.attempt = 0]
            ELSE [me EXCEPT !.pc = "cb_catch",
                            !.error = e])
  /\ UNCHANGED <<transfers, oracle, clock>>

\* 295-296: one poll of waitForTransaction(mintResult.transaction.id);
\* mintTxHash = mintTx.transaction.txHash || ''
CbWaitPoll(p, o) ==
  /\ proc[p].pc = "cb_wait"
  /\ LET me == proc[p]
         step == waitForTransactionStep(o, me.attempt, TxMaxAttempts)
     IN Become(p,
          IF step.next = "return"
          THEN [me EXCEPT !.pc = "cb_store", !.attempt = 0,
                          !.txHash = OrElse(PolledTxHash(me.txId, o), EmptyStr)]
          ELSE IF step.next = "again" THEN [me EXCEPT !.attempt = @ + 1]
          ELSE [me EXCEPT !.pc = "cb_catch", !.attempt = 0,
                          !.error = step.error])
  /\ UNCHANGED <<transfers, execCalls, oracle, clock>>

CbWait(p) ==
  /\ proc[p].pc = "cb_wait"
  /\ \E o \in PollOutcomes : CbWaitPoll(p, o)

\* 298-302: updateTransfer(completed, mintTxHash, message, attestation); return.
CbStore(p) ==
  /\ proc[p].pc = "cb_store"
  /\ LET me == proc[p] IN
     /\ transfers' = updateTransfer(transfers, me.transferId,
          [status |-> "completed", mintTxHash |-> me.txHash,
           message |-> me.message, attestation |-> me.attestation], clock)
     /\ clock' = clock + 1
     /\ CbReturn(p, me, me.txHash)
  /\ UNCHANGED <<execCalls, oracle>>

\* error.message?.includes('already') || error.message?.includes('nonce')
MayBeAlreadyProcessed(error) ==
  error = "Contract execution failed: nonce already used"

\* A faulty catch: an error saying the message was already processed marks the
\* record completed.
CbCatch_CompleteWhenAlready(p) ==
  /\ proc[p].pc = "cb_catch"
  /\ transfers' = updateTransfer(transfers, proc[p].transferId,
       [status |-> IF MayBeAlreadyProcessed(proc[p].error)
                   THEN "completed" ELSE "failed"], clock)
  /\ clock' = clock + 1
  /\ Settle(p, proc[p], Err(proc[p].error))
  /\ UNCHANGED <<execCalls, oracle>>

\* 303-313: catch: an error that may mean the message was already processed is
\* only logged as a warning; updateTransfer(failed), rethrow.
CbCatch(p) ==
  /\ proc[p].pc = "cb_catch"
  /\ transfers' = updateTransfer(transfers, proc[p].transferId,
                                 [status |-> "failed"], clock)
  /\ clock' = clock + 1
  /\ Settle(p, proc[p], Err(proc[p].error))
  /\ UNCHANGED <<execCalls, oracle>>

\* ---------------------------------------------------- executeBridgeFlow
\* onStatusUpdate: absent, a callback that returns, or one that may raise.
Callbacks == {"none", "returns", "raises"}

\* Whether one call of the callback raises.
CallbackRaises(callback) == IF callback = "raises" THEN BOOLEAN ELSE {FALSE}

\* 374-377: notify(status, message) logs, then calls onStatusUpdate if given.
notify(me, status) == [me EXCEPT !.notified = Append(@, status)]

\* An error raised by onStatusUpdate leaves notify and the flow: no try
\* surrounds the call.
CallbackError == "Callback failed"

\* 379-380: notify('burning'), then the flow starts with initiateBridge,
\* without a recipient.
ExecuteBridgeFlowNotify(p, req, callback, raises) ==
  /\ p = Len(proc) + 1
  /\ req.recipientAddress = Null
  /\ raises \in CallbackRaises(callback)
  /\ LET me == notify([IdleProc EXCEPT !.op = "executeBridgeFlow",
                                       !.userId = req.userId,
                                       !.sourceChainKey = req.sourceChainKey,
                                       !.destChainKey = req.destChainKey,
                                       !.amount = req.amount,
                                       !.callback = callback], "burning")
     IN IF raises
        THEN /\ Settle(p, me, Err(CallbackError))
             /\ UNCHANGED <<transfers, execCalls, oracle, clock>>
        ELSE IbStart(p, me)

\* The flow called without onStatusUpdate.
ExecuteBridgeFlow(p, req) == ExecuteBridgeFlowNotify(p, req, "none", FALSE)

\* 382-388: read the record back; without a burnTxHash the flow throws, else
\* notify('waiting_attestation').
EfReadNotify(p, raises) ==
  /\ proc[p].pc = "ef_read"
  /\ raises \in CallbackRaises(proc[p].callback)
  /\ LET me == proc[p]
         transfer == getTransferById(transfers, me.transferId)
     IN IF transfer = NoTransfer \/ ~Truthy(transfer.burnTxHash)
        THEN Settle(p, me, Err("Burn transaction hash not available"))
        ELSE IF raises
        THEN Settle(p, notify(me, "waiting_attestation"), Err(CallbackError))
        ELSE Become(p,
               [notify(me, "waiting_attestation") EXCEPT
                  !.pc = "ef_wait_attestation", !.transfer = transfer,
                  !.sourceDomain = CHAINS[me.sourceChainKey].cctpDomain,
                  !.attempt = 0])
  /\ UNCHANGED <<transfers, execCalls, oracle, clock>>

EfRead(p) ==
  /\ proc[p].pc = "ef_read"
  /\ \E raises \in CallbackRaises(proc[p].callback) : EfReadNotify(p, raises)

\* A faulty loop: one query more than maxAttempts.
waitForAttestationStep_OneMore(answer, attempt, maxAttempts) ==
  IF checkAttestation(answer) = "throw"
  THEN [next |-> "throw", error |-> "Request failed"]
  ELSE IF IsComplete(answer) THEN [next |-> "return", error |-> ""]
  ELSE IF attempt + 1 <= maxAttempts THEN [next |-> "again", error |-> ""]
  ELSE [next |-> "throw", error |-> "Attestation timed out"]

\* waitForAttestation, one query at attempt `attempt`: what the loop does next.
waitForAttestationStep(answer, attempt, maxAttempts) ==
  IF checkAttestation(answer) = "throw"
  THEN [next |-> "throw", error |-> "Request failed"]
  ELSE IF IsComplete(answer) THEN [next |-> "return", error |-> ""]
  ELSE IF attempt + 1 < maxAttempts THEN [next |-> "again", error |-> ""]
  ELSE [next |-> "throw", error |-> "Attestation timed out"]

\* A faulty wait: the complete attestation is stored by the wait itself.
EfWaitAttestationAnswer_StoreOnReturn(p, answer) ==
  /\ proc[p].pc = "ef_wait_attestation"
  /\ answer \in OracleAnswers(oracle[OracleKey(proc[p].transfer.burnTxHash)])
  /\ LET me == proc[p]
         step == waitForAttestationStep(answer, me.attempt, AttMaxAttempts)
     IN
       IF step.next = "return"
       THEN /\ Become(p,
                 [me EXCEPT !.pc = "ef_ready", !.attempt = 0,
                            !.message = MessageOf(me.transfer.burnTxHash),
                            !.attestation = AttestationOf(me.transfer.burnTxHash)])
            /\ transfers' = updateTransfer(transfers, me.transfer.id,
                 [status |-> "ready_to_mint",
                  message |-> MessageOf(me.transfer.burnTxHash),
                  attestation |-> AttestationOf(me.transfer.burnTxHash)], clock)
            /\ clock' = clock + 1
       ELSE /\ IF step.next = "again"
               THEN Become(p, [me EXCEPT !.attempt = @ + 1])
               ELSE Settle(p, me, Err(step.error))
            /\ UNCHANGED <<transfers, clock>>
  /\ UNCHANGED <<execCalls, oracle>>

\* A faulty wait: a wait that ends with an error marks the transfer failed.
EfWaitAttestationAnswer_FailOnTimeout(p, answer) ==
  /\ proc[p].pc = "ef_wait_attestation"
  /\ answer \in OracleAnswers(oracle[OracleKey(proc[p].transfer.burnTxHash)])
  /\ LET me == proc[p]
         step == waitForAttestationStep(answer, me.attempt, AttMaxAttempts)
     IN
       IF step.next = "throw"
       THEN /\ Settle(p, me, Err(step.error))
            /\ transfers' = updateTransfer(transfers, me.transfer.id,
                 [status |-> "failed"], clock)
            /\ clock' = clock + 1
       ELSE /\ IF step.next = "return"
               THEN Become(p,
                      [me EXCEPT !.pc = "ef_ready", !.attempt = 0,
                                 !.message = MessageOf(me.transfer.burnTxHash),
                                 !.attestation = AttestationOf(me.transfer.burnTxHash)])
               ELSE Become(p, [me EXCEPT !.attempt = @ + 1])
            /\ UNCHANGED <<transfers, clock>>
  /\ UNCHANGED <<execCalls, oracle>>

\* 390: one query of waitForAttestation(transfer.burnTxHash, domain), which
\* the oracle answers with `answer`.
EfWaitAttestationAnswer(p, answer) ==
  /\ proc[p].pc = "ef_wait_attestation"
  /\ answer \in OracleAnswers(oracle[OracleKey(proc[p].transfer.burnTxHash)])
  /\ LET me == proc[p]
         step == waitForAttestationStep(answer, me.attempt, AttMaxAttempts)
     IN
       IF step.next = "return"
       THEN Become(p,
              [me EXCEPT !.pc = "ef_ready", !.attempt = 0,
                         !.message = MessageOf(me.transfer.burnTxHash),
                         !.attestation = AttestationOf(me.transfer.burnTxHash)])
       ELSE IF step.next = "again"
       THEN Become(p, [me EXCEPT !.attempt = @ + 1])
       ELSE Settle(p, me, Err(step.error))
  /\ UNCHANGED <<transfers, execCalls, oracle, clock>>

EfWaitAttestation(p) ==
  /\ proc[p].pc = "ef_wait_attestation"
  /\ \E answer \in AllOracleAnswers : EfWaitAttestationAnswer(p, answer)

\* 392-397: updateTransfer(ready_to_mint, message, attestation)
EfReady(p) ==
  /\ proc[p].pc = "ef_ready"
  /\ transfers' = updateTransfer(transfers, proc[p].transfer.id,
       [status |-> "ready_to_mint", message |-> proc[p].message,
        attestation |-> proc[p].attestation], clock)
  /\ clock' = clock + 1
  /\ Goto(p, proc[p], "cb_read")
  /\ UNCHANGED <<execCalls, oracle>>

\* A faulty flow: 'completed' is notified together with 'minting', before
\* completeBridge has run.
FlowCompleteBridgeNotify_CompletedEarly(p, raises) ==
  /\ proc[p].pc = "cb_read"
  /\ raises \in CallbackRaises(proc[p].callback)
  /\ IF raises
     THEN /\ Settle(p, notify(proc[p], "minting"), Err(CallbackError))
          /\ UNCHANGED <<transfers, execCalls, oracle, clock>>
     ELSE CbRead(p, notify(notify(proc[p], "minting"), "completed"))

\* 399-401: notify('minting'), then
\* completeBridge(transfer.id, userId, message, attestation)
FlowCompleteBridgeNotify(p, raises) ==
  /\ proc[p].pc = "cb_read"
  /\ raises \in CallbackRaises(proc[p].callback)
  /\ IF raises
     THEN /\ Settle(p, notify(proc[p], "minting"), Err(CallbackError))
          /\ UNCHANGED <<transfers, execCalls, oracle, clock>>
     ELSE CbRead(p, notify(proc[p], "minting"))

FlowCompleteBridge(p) ==
  /\ proc[p].pc = "cb_read"
  /\ \E raises \in CallbackRaises(proc[p].callback) :
       FlowCompleteBridgeNotify(p, raises)

\* 403-405: notify('completed'), then return this.getBridgeStatus(transfer.id)
FlowGetBridgeStatusNotify(p, raises) ==
  /\ proc[p].pc = "gs_read"
  /\ raises \in CallbackRaises(proc[p].callback)
  /\ IF raises
     THEN /\ Settle(p, notify(proc[p], "completed"), Err(CallbackError))
          /\ UNCHANGED <<transfers, execCalls, oracle, clock>>
     ELSE GsRead(p, notify(proc[p], "completed"))

FlowGetBridgeStatus(p) ==
  /\ proc[p].pc = "gs_read"
  /\ \E raises \in CallbackRaises(proc[p].callback) :
       FlowGetBridgeStatusNotify(p, raises)

\* ------------------------------------------------------------ environment
\* The oracle sees the burn of a recorded hash, then attests it.
OracleAdvance(t) ==
  /\ \E i \in 1..Len(transfers) : transfers[i].burnTxHash = TxHashOf(t)
  /\ oracle[t] # "complete"
  /\ oracle' = [oracle EXCEPT ![t] =
       IF oracle[t] = "notfound" THEN "pending" ELSE "complete"]
  /\ UNCHANGED <<transfers, proc, execCalls, clock, circleWalletService, fileStore>>

TransferIdInputs == 1..(MaxTransfers + 1)

\* The invocations made so far.
Procs == 1..Len(proc)

\* One step of an invocation that is under way.
Step(p) ==
  \/ IbSetBurning(p) \/ IbApprove(p) \/ IbWaitApprove(p) \/ IbBurn(p)
  \/ IbWaitBurn(p) \/ IbStoreBurn(p) \/ IbCatch(p)
  \/ GsCheck(p) \/ GsWrite(p) \/ GsReread(p)
  \/ CbSetMinting(p) \/ CbSubmit(p) \/ CbWait(p) \/ CbStore(p) \/ CbCatch(p)
  \/ EfRead(p) \/ EfWaitAttestation(p) \/ EfReady(p)
  \/ FlowCompleteBridge(p) \/ FlowGetBridgeStatus(p)

\* A caller invokes an operation: invocation p arrives.
Invoke(p) ==
  /\ p = Len(proc) + 1
  /\ p <= MaxInvocations
  /\ \/ \E req \in BridgeRequests : InitiateBridge(p, req)
     \/ \E req \in BridgeRequests : ExecuteBridgeFlow(p, req)
     \/ \E id \in TransferIdInputs : GetBridgeStatus(p, id)
     \/ \E id \in TransferIdInputs, u \in Users :
          \E payload \in PayloadInputs(id) : CompleteBridge(p, id, u, payload)

Environment == \E t \in 1..MaxTx : OracleAdvance(t)

\* Invocations overlap: one may arrive, and any may take a step, at any time.
Next == \/ Invoke(Len(proc) + 1)
        \/ \E p \in Procs : Step(p)
        \/ Environment

Spec == Init /\ [][Next]_vars

\* Invocations do not overlap: one arrives only when the others have ended.
AllDone == \A q \in Procs : proc[q].pc = "done"

SeqNext == \/ AllDone /\ Invoke(Len(proc) + 1)
           \/ \E p \in Procs : Step(p)
           \/ Environment

SeqSpec == Init /\ [][SeqNext]_vars

\* ------------------------------------------------- one initiateBridge alone
\* Amounts around the point where 1% of the amount reaches the minimum fee:
\* 0, 500, 99999, 100000, 100099, 100100, 200000, 1234567 and 100000000 units.
FeeAmounts ==
  { [whole |-> 0, frac |-> <<>>],
    [whole |-> 0, frac |-> <<0, 0, 0, 5>>],
    [whole |-> 0, frac |-> <<0, 9, 9, 9, 9, 9>>],
    [whole |-> 0, frac |-> <<1>>],
    [whole |-> 0, frac |-> <<1, 0, 0, 0, 9, 9>>],
    [whole |-> 0, frac |-> <<1, 0, 0, 1>>],
    [whole |-> 0, frac |-> <<2>>],
    [whole |-> 1, frac |-> <<2, 3, 4, 5, 6, 7>>],
    [whole |-> 100, frac |-> <<>>] }

\* One caller bridges one of these amounts; nothing else runs.
FeeNext ==
  \/ /\ proc = <<>>
     /\ \E a \in FeeAmounts :
          InitiateBridge(1, BridgeRequest("u1", "ETH_SEPOLIA", "ARB_SEPOLIA", a, Null))
  \/ \E p \in Procs : IbSetBurning(p)
  \/ \E p \in Procs : IbApprove(p)
  \/ \E p \in Procs : IbWaitApprove(p)
  \/ \E p \in Procs : IbBurn(p)
  \/ \E p \in Procs : IbWaitBurn(p)
  \/ \E p \in Procs : IbStoreBurn(p)
  \/ \E p \in Procs : IbCatch(p)

FeeSpec == Init /\ [][FeeNext]_vars

\* ============================================================== properties
\* The transfers of the store.
TransferIds == 1..Len(transfers)

\* The receiveMessage requests sent for transfer i.
ReceiveMessageCalls(calls, i) ==
  { k \in 1..Len(calls) :
      /\ calls[k].abiFunctionSignature = "receiveMessage(bytes,bytes)"
      /\ calls[k].transferId = i }

\* The depositForBurn requests sent.
BurnCalls ==
  { k \in 1..Len(execCalls) :
      execCalls[k].abiFunctionSignature =
        "depositForBurn(uint256,uint32,bytes32,address,bytes32,uint256,uint32)" }

\* The edges of the state graph of the transfer lifecycle.
StateGraphEdges ==
  { <<"pending", "burning">>, <<"burning", "waiting_attestation">>,
    <<"waiting_attestation", "ready_to_mint">>, <<"ready_to_mint", "minting">>,
    <<"minting", "completed">> }
  \cup
  { <<s, "failed">> : s \in Statuses \ {"completed", "failed"} }

\* pending < burning < waiting_attestation < ready_to_mint < minting < completed
Rank(status) ==
  CASE status = "pending" -> 0
    [] status = "burning" -> 1
    [] status = "waiting_attestation" -> 2
    [] status = "ready_to_mint" -> 3
    [] status = "minting" -> 4
    [] status = "completed" -> 5
    [] OTHER -> 6

\* C1: with invocations that do not overlap, a new transfer starts as pending and
\* every change of a stored status is an edge of the state graph; so status
\* becomes minting only from ready_to_mint.
C1_StatusFollowsGraph ==
  [][ /\ \A i \in TransferIds :
           transfers'[i].status # transfers[i].status
             => <<transfers[i].status, transfers'[i].status>> \in StateGraphEdges
      /\ \A i \in 1..Len(transfers') \ TransferIds :
           transfers'[i].status = "pending" ]_vars

\* C2: failed is absorbing: a stored status failed never changes, and a
\* completeBridge invocation that read its transfer as failed sends no
\* receiveMessage request.
C2_FailedAbsorbing ==
  [][ /\ \A i \in TransferIds :
           transfers[i].status = "failed" => transfers'[i].status = "failed"
      /\ \A p \in Procs :
           (proc[p].pc = "cb_submit" /\ proc[p].transfer.status = "failed")
             => execCalls' = execCalls ]_vars

\* C3: at most one receiveMessage request is ever sent for one transfer id,
\* however the invocations interleave.
C3_AtMostOneMint ==
  \A i \in TransferIds : Cardinality(ReceiveMessageCalls(execCalls, i)) <= 1

\* C4: a completeBridge invocation arriving for a transfer whose stored status is
\* completed settles at once with the stored mintTxHash, sends no request to the
\* signing service and leaves the store as it is.
C4_CompleteIdempotent ==
  [][ \A p \in 1..Len(proc') \ Procs :
        ( /\ proc'[p].op = "completeBridge"
          /\ getTransferById(transfers, proc'[p].transferId).status = "completed" )
        => /\ proc'[p].pc = "done"
           /\ proc'[p].result =
                Ok([mintTxHash |->
                      getTransferById(transfers, proc'[p].transferId).mintTxHash])
           /\ execCalls' = execCalls
           /\ transfers' = transfers ]_vars

\* C5: completed is terminal: once a stored status is completed, no step of any
\* invocation changes that status or the mintTxHash.
C5_CompletedTerminal ==
  [][ \A i \in TransferIds :
        transfers[i].status = "completed"
          => /\ transfers'[i].status = "completed"
             /\ transfers'[i].mintTxHash = transfers[i].mintTxHash ]_vars

\* C6: while only getBridgeStatus and executeBridgeFlow invocations run, a stored
\* status never moves backward in the order pending < ... < completed.
C6_NoBackwardStatus ==
  [][ (\A p \in Procs : proc[p].op \in {"getBridgeStatus", "executeBridgeFlow"})
        => \A i \in TransferIds :
             (transfers[i].status # "failed" /\ transfers'[i].status # "failed")
               => Rank(transfers'[i].status) >= Rank(transfers[i].status) ]_vars

\* C7: burnTxHash is non-null in waiting_attestation, ready_to_mint, minting and
\* completed, and null in pending and burning (failed may hold either).
C7_BurnHashIffBurned ==
  \A i \in TransferIds :
    /\ transfers[i].status \in
         {"waiting_attestation", "ready_to_mint", "minting", "completed"}
         => transfers[i].burnTxHash # Null
    /\ transfers[i].status \in {"pending", "burning"}
         => transfers[i].burnTxHash = Null

\* C8: mintTxHash is non-null exactly when the stored status is completed.
C8_MintHashIffCompleted ==
  \A i \in TransferIds :
    transfers[i].mintTxHash # Null <=> transfers[i].status = "completed"

\* C9: burnTxHash and mintTxHash, once non-null, keep their value for ever.
C9_HashesWrittenOnce ==
  [][ \A i \in TransferIds :
        /\ transfers[i].burnTxHash # Null
             => transfers'[i].burnTxHash = transfers[i].burnTxHash
        /\ transfers[i].mintTxHash # Null
             => transfers'[i].mintTxHash = transfers[i].mintTxHash ]_vars

\* C10: in every depositForBurn request of a positive amount the maxFee parameter
\* is strictly less than the amount parameter.
C10_FeeBelowAmount ==
  \A k \in BurnCalls :
    execCalls[k].abiParameters[1] > 0
      => execCalls[k].abiParameters[6] < execCalls[k].abiParameters[1]

\* C11: in every depositForBurn request the maxFee parameter is the greater of
\* floor(amount / 100) and 1000: it is at least 1000, at least the floor, and
\* equal to one of the two; 100000000 units give 1000000, 500 units give 1000
\* and 100000 units give 1000.
C11_FeeIsMaxOfPercentAndMinimum ==
  \A k \in BurnCalls :
    LET amountUnits == execCalls[k].abiParameters[1]
        fee == execCalls[k].abiParameters[6]
    IN /\ fee >= 1000
       /\ 100 * (fee + 1) > amountUnits
       /\ fee = 1000 \/ 100 * fee <= amountUnits
       /\ amountUnits = 100000000 => fee = 1000000
       /\ amountUnits = 500 => fee = 1000
       /\ amountUnits = 100000 => fee = 1000

\* A burn request of exactly 100000 units has been sent.
C11_Witness ==
  \E k \in BurnCalls : execCalls[k].abiParameters[1] = 100000

\* The positions of initiateBridge at which the approve or burn request is sent
\* or its confirmation awaited.
BurnPhase == {"ib_approve", "ib_wait_approve", "ib_burn", "ib_wait_burn"}

\* C12: once the record exists, a rejected approve or burn request, or a
\* confirmation that fails or times out, is caught with its error; the catch
\* stores status failed, leaves burnTxHash null, and ends the invocation with
\* that same error.
C12_InitiateFailureMarksFailed ==
  [][ \A p \in Procs :
        /\ ( /\ proc[p].pc \in BurnPhase
             /\ proc'[p].pc \notin BurnPhase \cup {"ib_store_burn"} )
           => /\ proc'[p].pc = "ib_catch"
              /\ proc'[p].error # ""
              /\ transfers' = transfers
        /\ ( /\ proc[p].pc \in {"ib_approve", "ib_burn"}
             /\ proc'[p] # proc[p]
             /\ execCalls' # execCalls
             /\ ~execCalls'[Len(execCalls')].accepted )
           => proc'[p].pc = "ib_catch"
        /\ ( proc[p].pc = "ib_catch" /\ proc'[p] # proc[p] )
           => /\ proc'[p].pc = "done"
              /\ proc'[p].result = Err(proc[p].error)
              /\ transfers'[proc[p].transferId].status = "failed"
              /\ transfers'[proc[p].transferId].burnTxHash = Null ]_vars

\* An initiateBridge has ended with the error of a confirmation that timed out,
\* and its record is stored as failed without a burnTxHash.
C12_Witness ==
  \E p \in Procs :
    /\ proc[p].op = "initiateBridge"
    /\ proc[p].pc = "done"
    /\ proc[p].result = Err("Transaction timed out")
    /\ transfers[proc[p].transferId].status = "failed"
    /\ transfers[proc[p].transferId].burnTxHash = Null

\* C13: when initiateBridge succeeds, the record is stored with status
\* waiting_attestation and with the hash of the confirmed burn transaction as
\* burnTxHash, and the invocation returns the record's id, the id of the burn
\* transaction and status waiting_attestation.
C13_InitiateSuccessStoresBurnHash ==
  [][ \A p \in Procs :
        ( proc[p].pc = "ib_store_burn" /\ proc'[p] # proc[p] )
        => /\ transfers'[proc[p].transferId].status = "waiting_attestation"
           /\ transfers'[proc[p].transferId].burnTxHash =
                TxHashOf(proc[p].burnTransactionId)
           /\ proc[p].op = "initiateBridge"
                => proc'[p].result =
                     Ok([transferId |-> proc[p].transferId,
                         transactionId |-> proc[p].burnTransactionId,
                         status |-> "waiting_attestation"]) ]_vars

\* A request naming a chain the registry does not hold, or a user without a
\* wallet on the source chain.
RejectedRequest(req) ==
  \/ req.sourceChainKey \notin DOMAIN CHAINS
  \/ req.destChainKey \notin DOMAIN CHAINS
  \/ ~\E w \in walletAddresses[req.userId] :
        w.blockchain = CHAINS[req.sourceChainKey].circleBlockchain

\* C14: initiateBridge called with an unknown source or destination chain, or
\* for a user without a wallet on the source chain, ends at once with an error,
\* creates no record and sends no request to the signing service.
C14_InitiateRejectsBadRequest ==
  [][ Len(proc') = Len(proc) + 1
      => \A req \in BridgeRequests :
           ( /\ RejectedRequest(req)
             /\ \/ InitiateBridge(Len(proc) + 1, req)
                \/ ExecuteBridgeFlow(Len(proc) + 1, req) )
           => /\ proc'[Len(proc')].pc = "done"
              /\ proc'[Len(proc')].result.kind = "error"
              /\ transfers' = transfers
              /\ execCalls' = execCalls ]_vars

\* An initiateBridge for a user without a wallet on the source chain has ended
\* with its error, the store and the signing service untouched.
C14_Witness ==
  \E p \in Procs :
    /\ proc[p].op = "initiateBridge"
    /\ proc[p].pc = "done"
    /\ proc[p].result = Err("No wallet found for source chain")
    /\ transfers = <<>>
    /\ execCalls = <<>>

\* A request that passes the chain and source-wallet checks but has no
\* destination address: no recipient, and no wallet of the user on the
\* destination chain.
UnresolvableRequest(req) ==
  /\ ~RejectedRequest(req)
  /\ req.recipientAddress = Null
  /\ ~\E w \in walletAddresses[req.userId] :
        w.blockchain = CHAINS[req.destChainKey].circleBlockchain

\* C15: initiateBridge without a resolvable destination address fails as a
\* precondition: it ends at once with an error, creates no record and sends no
\* approve or burn request.
C15_NoDestinationIsPrecondition ==
  [][ Len(proc') = Len(proc) + 1
      => \A req \in BridgeRequests :
           ( /\ UnresolvableRequest(req)
             /\ \/ InitiateBridge(Len(proc) + 1, req)
                \/ ExecuteBridgeFlow(Len(proc) + 1, req) )
           => /\ proc'[Len(proc')].pc = "done"
              /\ proc'[Len(proc')].result.kind = "error"
              /\ transfers' = transfers
              /\ execCalls' = execCalls ]_vars

\* The positions of completeBridge at which the receiveMessage request is sent
\* or its confirmation awaited.
MintPhase == {"cb_submit", "cb_wait"}

BadCompleteCall(id, u) ==
  \/ id \notin TransferIds
  \/ ~\E w \in walletAddresses[u] :
        w.blockchain = CHAINS[transfers[id].destinationChain].circleBlockchain

\* The stored transfer id is completed and holds a mint hash.
StoredCompleted(id) ==
  /\ id \in TransferIds
  /\ transfers[id].status = "completed"
  /\ transfers[id].mintTxHash \notin {Null, EmptyStr}

\* C17: completeBridge called with an unknown transfer id, or by a user without
\* a wallet on the destination chain, ends at once with an error, sends no
\* request and leaves the store unchanged.
C17_CompleteRejectsBadCall ==
  [][ Len(proc') = Len(proc) + 1
      => \A id \in TransferIdInputs, u \in Users :
           \A payload \in PayloadInputs(id) :
             ( /\ BadCompleteCall(id, u)
               /\ CompleteBridge(Len(proc) + 1, id, u, payload) )
             => /\ proc'[Len(proc')].pc = "done"
                /\ proc'[Len(proc')].result.kind = "error"
                /\ transfers' = transfers
                /\ execCalls' = execCalls ]_vars

\* C17, amended: such a call ends at once, sends no request and leaves the store
\* unchanged; it ends with an error unless the transfer is already completed
\* with a mint hash, in which case it returns that hash whoever the user is.
C17_CompleteRejectsBadCallUnlessCompleted ==
  [][ Len(proc') = Len(proc) + 1
      => \A id \in TransferIdInputs, u \in Users :
           \A payload \in PayloadInputs(id) :
             ( /\ BadCompleteCall(id, u)
               /\ CompleteBridge(Len(proc) + 1, id, u, payload) )
             => /\ proc'[Len(proc')].pc = "done"
                /\ IF StoredCompleted(id)
                   THEN proc'[Len(proc')].result =
                          Ok([mintTxHash |-> transfers[id].mintTxHash])
                   ELSE proc'[Len(proc')].result.kind = "error"
                /\ transfers' = transfers
                /\ execCalls' = execCalls ]_vars

\* A completeBridge by a user without a wallet on the destination chain has
\* ended with its error on a stored transfer that is not completed.
C17_Witness ==
  \E p \in Procs :
    /\ proc[p].op = "completeBridge"
    /\ proc[p].pc = "done"
    /\ proc[p].result = Err("No wallet found for destination chain")
    /\ proc[p].transferId \in TransferIds
    /\ transfers[proc[p].transferId].status = "waiting_attestation"

\* The fields of a returned status record, other than transferId.
StatusFields ==
  {"status", "burnTxHash", "mintTxHash", "message", "attestation",
   "sourceChain", "destinationChain", "amount"}

\* The result `result` carries the fields of the record t, verbatim.
ReturnsRecord(result, t) ==
  /\ result.kind = "ok"
  /\ result.value.transferId = t.id
  /\ \A f \in StatusFields : result.value[f] = t[f]

\* C18: with invocations that do not overlap, a getBridgeStatus that read its
\* transfer in waiting_attestation with a burnTxHash and is told by the oracle
\* that the first message is complete stores status ready_to_mint with that
\* message and attestation, and then returns the stored record, whose status is
\* ready_to_mint.
C18_StatusPollPersistsReady ==
  [][ \A p \in Procs :
        /\ GsCheckAnswer(p, "complete")
           => /\ proc'[p].pc = "gs_write"
              /\ transfers' = transfers
        /\ ( proc[p].pc = "gs_write" /\ proc'[p] # proc[p] )
           => LET before == transfers[proc[p].transferId]
                  after == transfers'[proc[p].transferId]
              IN /\ proc'[p].pc = "gs_reread"
                 /\ after.status = "ready_to_mint"
                 /\ after.message = MessageOf(before.burnTxHash)
                 /\ after.attestation = AttestationOf(before.burnTxHash)
        /\ ( proc[p].pc = "gs_reread" /\ proc'[p] # proc[p] )
           => /\ proc'[p].pc = "done"
              /\ transfers' = transfers
              /\ transfers[proc[p].transferId].status = "ready_to_mint"
              /\ ReturnsRecord(proc'[p].result, transfers[proc[p].transferId]) ]_vars

\* A getBridgeStatus has returned ready_to_mint with the oracle's message, and
\* the store holds the same.
C18_Witness ==
  \E p \in Procs :
    /\ proc[p].op = "getBridgeStatus"
    /\ proc[p].pc = "done"
    /\ proc[p].result.kind = "ok"
    /\ proc[p].result.value.status = "ready_to_mint"
    /\ proc[p].result.value.message # Null
    /\ transfers[proc[p].transferId].status = "ready_to_mint"
    /\ transfers[proc[p].transferId].message = proc[p].result.value.message

\* What the first step of getBridgeStatus(id), made by invocation q, must do: an
\* error for an unknown id, the oracle query only for a transfer stored in
\* waiting_attestation with a burnTxHash, else the stored record returned.
StatusReadPost(q, id) ==
  /\ transfers' = transfers
  /\ IF id \notin TransferIds
     THEN proc'[q].pc = "done" /\ proc'[q].result.kind = "error"
     ELSE IF /\ transfers[id].status = "waiting_attestation"
             /\ transfers[id].burnTxHash \notin {Null, EmptyStr}
     THEN proc'[q].pc = "gs_check"
     ELSE /\ proc'[q].pc = "done"
          /\ ReturnsRecord(proc'[q].result, transfers[id])

\* C19: with invocations that do not overlap, getBridgeStatus never changes the
\* store except on a complete answer of the oracle: it raises an error for an
\* unknown id; for a transfer that is not in waiting_attestation with a
\* burnTxHash it returns the stored record without asking the oracle; and when
\* the oracle has no message, or a first message that is not complete, it
\* returns the stored record.
C19_StatusPollFrame ==
  [][ /\ \A id \in TransferIdInputs :
           ( Len(proc') = Len(proc) + 1 /\ GetBridgeStatus(Len(proc) + 1, id) )
           => StatusReadPost(Len(proc'), id)
      /\ \A p \in Procs :
           /\ ( proc[p].pc = "gs_read" /\ proc'[p] # proc[p] )
              => StatusReadPost(p, proc[p].transferId)
           /\ \A answer \in {"404", "empty", "pending"} :
                GsCheckAnswer(p, answer)
                => /\ transfers' = transfers
                   /\ proc'[p].pc = "done"
                   /\ ReturnsRecord(proc'[p].result,
                                    transfers[proc[p].transferId]) ]_vars

\* A getBridgeStatus has asked the oracle, found no complete message, and
\* returned the record as stored: waiting_attestation.
C19_Witness ==
  \E p \in Procs :
    /\ proc[p].op = "getBridgeStatus"
    /\ proc[p].pc = "done"
    /\ ReturnsRecord(proc[p].result, transfers[proc[p].transferId])
    /\ transfers[proc[p].transferId].status = "waiting_attestation"
    /\ transfers[proc[p].transferId].burnTxHash \notin {Null, EmptyStr}

\* C20: when the oracle query made inside getBridgeStatus fails (not with a
\* 404), getBridgeStatus ends with an error.
C20_OracleFailureSurfaced ==
  [][ \A p \in Procs :
        GsCheckAnswer(p, "error")
        => /\ proc'[p].pc = "done"
           /\ proc'[p].result.kind = "error" ]_vars

\* ------------------------------------------- direct queries of the oracle
\* response.data of an answer that carries a first message
AttestationResponse(burnTxHash, answer) ==
  [status |-> answer, message |-> MessageOf(burnTxHash),
   attestation |-> IF answer = "complete" THEN AttestationOf(burnTxHash)
                   ELSE <<"PENDING">>]

\* 209-226 (called by POST /check-attestation): one GET, answered `answer`;
\* the caller gets null, the response data, or the raised error.
CheckAttestationAnswer(p, burnTxHash, answer) ==
  /\ p = Len(proc) + 1
  /\ answer \in OracleAnswers(oracle[OracleKey(burnTxHash)])
  /\ LET r == checkAttestation(answer) IN
     Settle(p, [IdleProc EXCEPT !.op = "checkAttestation"],
            IF r = "throw" THEN Err("Request failed")
            ELSE IF r = "null" THEN Ok(Null)
            ELSE Ok(AttestationResponse(burnTxHash, answer)))
  /\ UNCHANGED <<transfers, execCalls, oracle, clock>>

CheckAttestation(p, burnTxHash) ==
  \E answer \in AllOracleAnswers : CheckAttestationAnswer(p, burnTxHash, answer)

\* The two requests of u1, who holds a wallet on both chains.
GoodRequests ==
  { BridgeRequest("u1", "ETH_SEPOLIA", "ARB_SEPOLIA", DefaultAmount, Null),
    BridgeRequest("u1", "ARB_SEPOLIA", "ETH_SEPOLIA", SmallAmount, Null) }

\* One caller bridges; then callers query the oracle for burn hashes while the
\* oracle goes on.
OracleNext ==
  \/ /\ proc = <<>>
     /\ \E req \in GoodRequests : InitiateBridge(1, req)
  \/ \E p \in Procs : IbSetBurning(p)
  \/ \E p \in Procs : IbApprove(p)
  \/ \E p \in Procs : IbWaitApprove(p)
  \/ \E p \in Procs : IbBurn(p)
  \/ \E p \in Procs : IbWaitBurn(p)
  \/ \E p \in Procs : IbStoreBurn(p)
  \/ \E p \in Procs : IbCatch(p)
  \/ \E t \in 1..MaxTx : OracleAdvance(t)
  \/ /\ proc # <<>>
     /\ Len(proc) < MaxInvocations
     /\ \E t \in 1..MaxTx : CheckAttestation(Len(proc) + 1, TxHashOf(t))

OracleSpec == Init /\ [][OracleNext]_vars

\* ----------------------------------------------- one executeBridgeFlow alone
\* One caller runs the flow for a request of u1, with or without a callback;
\* nothing else runs but the oracle.
FlowNext ==
  \/ /\ proc = <<>>
     /\ \E req \in GoodRequests, callback \in Callbacks, raises \in BOOLEAN :
          ExecuteBridgeFlowNotify(1, req, callback, raises)
  \/ \E p \in Procs : IbSetBurning(p)
  \/ \E p \in Procs : IbApprove(p)
  \/ \E p \in Procs : IbWaitApprove(p)
  \/ \E p \in Procs : IbBurn(p)
  \/ \E p \in Procs : IbWaitBurn(p)
  \/ \E p \in Procs : IbStoreBurn(p)
  \/ \E p \in Procs : IbCatch(p)
  \/ \E p \in Procs : EfRead(p)
  \/ \E p \in Procs : EfWaitAttestation(p)
  \/ \E p \in Procs : EfReady(p)
  \/ \E p \in Procs : FlowCompleteBridge(p)
  \/ \E p \in Procs : CbSetMinting(p)
  \/ \E p \in Procs : CbSubmit(p)
  \/ \E p \in Procs : CbWait(p)
  \/ \E p \in Procs : CbStore(p)
  \/ \E p \in Procs : CbCatch(p)
  \/ \E p \in Procs : FlowGetBridgeStatus(p)
  \/ \E t \in 1..MaxTx : OracleAdvance(t)

FlowSpec == Init /\ [][FlowNext]_vars

\* C21: checkAttestation returns null, without raising, exactly when the
\* oracle answers 404 or with an empty message list; a first message, pending
\* or complete, is returned as the response; any other failure of the request
\* is raised to the caller.
C21_CheckAttestationNullOrRaise ==
  [][ \A t \in 1..MaxTx : \A answer \in AllOracleAnswers :
        ( Len(proc') = Len(proc) + 1
          /\ CheckAttestationAnswer(Len(proc) + 1, TxHashOf(t), answer) )
        => LET r == proc'[Len(proc')].result IN
           /\ (r = Ok(Null)) <=> (answer \in {"404", "empty"})
           /\ (r.kind = "error") <=> (answer = "error")
           /\ (answer \in {"pending", "complete"})
              => r = Ok(AttestationResponse(TxHashOf(t), answer)) ]_vars

\* The oracle has been asked about a burn it does not know yet, and about one
\* it knows: one query returned null, another the response.
C21_Witness ==
  /\ \E p \in Procs : proc[p].op = "checkAttestation" /\ proc[p].result = Ok(Null)
  /\ \E t \in 1..MaxTx : oracle[t] # "notfound"

\* C22: every waitForAttestation query is one of at most maxAttempts; a query
\* answered with a complete first message ends the wait with that response and
\* no further query; a query answered null or not complete is followed by the
\* next query, or, when it was query number maxAttempts, by the error
\* 'Attestation timed out'.
C22_WaitForAttestationBudget ==
  [][ \A p \in Procs : \A answer \in AllOracleAnswers :
        EfWaitAttestationAnswer(p, answer)
        => /\ proc[p].attempt + 1 <= AttMaxAttempts
           /\ (answer = "complete")
              => /\ proc'[p].pc = "ef_ready"
                 /\ proc'[p].message = MessageOf(proc[p].transfer.burnTxHash)
                 /\ proc'[p].attestation = AttestationOf(proc[p].transfer.burnTxHash)
           /\ (answer \in {"404", "empty", "pending"})
              => IF proc[p].attempt + 1 = AttMaxAttempts
                 THEN /\ proc'[p].pc = "done"
                      /\ proc'[p].result = Err("Attestation timed out")
                 ELSE /\ proc'[p].pc = "ef_wait_attestation"
                      /\ proc'[p].attempt = proc[p].attempt + 1 ]_vars

\* The wait has used all its queries but the last one, and the oracle now
\* holds the complete attestation.
C22_Witness ==
  \E p \in Procs :
    /\ proc[p].pc = "ef_wait_attestation"
    /\ proc[p].attempt + 1 = AttMaxAttempts
    /\ oracle[OracleKey(proc[p].transfer.burnTxHash)] = "complete"

\* C23: no query of waitForAttestation writes to the transfer store, whether
\* the wait goes on, returns, times out or raises the oracle's error.
C23_WaitForAttestationFrame ==
  [][ \A p \in Procs : \A answer \in AllOracleAnswers :
        EfWaitAttestationAnswer(p, answer) => transfers' = transfers ]_vars

\* The wait has returned the attestation and the record is still as initiateBridge
\* left it.
C23_Witness ==
  \E p \in Procs :
    /\ proc[p].pc = "ef_ready"
    /\ proc[p].attestation = AttestationOf(proc[p].transfer.burnTxHash)
    /\ transfers[proc[p].transferId] = proc[p].transfer
    /\ transfers[proc[p].transferId].status = "waiting_attestation"

\* C24: when the flow's attestation wait runs out of attempts, the flow ends
\* with the error 'Attestation timed out' and the stored record is untouched:
\* waiting_attestation, with its burnTxHash, not failed.
C24_TimeoutLeavesWaiting ==
  [][ \A p \in Procs :
        ( /\ proc[p].pc = "ef_wait_attestation"
          /\ proc[p].attempt + 1 = AttMaxAttempts
          /\ \E answer \in {"404", "empty", "pending"} :
               EfWaitAttestationAnswer(p, answer) )
        => /\ proc'[p].pc = "done"
           /\ proc'[p].result = Err("Attestation timed out")
           /\ transfers' = transfers
           /\ transfers'[proc[p].transferId].status = "waiting_attestation"
           /\ transfers'[proc[p].transferId].burnTxHash = proc[p].transfer.burnTxHash
           /\ Truthy(transfers'[proc[p].transferId].burnTxHash) ]_vars

\* A flow has ended with the timeout and its transfer is stored
\* waiting_attestation with the burn hash.
C24_Witness ==
  \E p \in Procs :
    /\ proc[p].op = "executeBridgeFlow"
    /\ proc[p].pc = "done"
    /\ proc[p].result = Err("Attestation timed out")
    /\ transfers[proc[p].transferId].status = "waiting_attestation"
    /\ Truthy(transfers[proc[p].transferId].burnTxHash)

\* C25: a transfer stored waiting_attestation is resumable: a getBridgeStatus
\* call for it asks the oracle, and once the oracle answers with the complete
\* first message the call stores ready_to_mint.
C25_WaitingIsResumable ==
  [][ /\ \A id \in TransferIds :
           ( /\ Len(proc') = Len(proc) + 1
             /\ GetBridgeStatus(Len(proc) + 1, id)
             /\ transfers[id].status = "waiting_attestation" )
           => proc'[Len(proc')].pc = "gs_check"
      /\ \A p \in Procs :
           /\ GsCheckAnswer(p, "complete") => proc'[p].pc = "gs_write"
           /\ ( proc[p].pc = "gs_write" /\ proc'[p] # proc[p] )
              => transfers'[proc[p].transferId].status = "ready_to_mint" ]_vars

\* The states of a polled transaction that end the wait.
TerminalStates == {"CONFIRMED", "COMPLETE", "FAILED", "DENIED"}

\* What one poll of waitForTransaction, made by invocation p at pc `waiting`
\* and showing `o`, must lead to: the return (pc `returned`), the error
\* 'Transaction <state>', the next poll, or the timeout.
PollPost(p, o, waiting, returned) ==
  /\ proc[p].attempt + 1 <= TxMaxAttempts
  /\ (o.state \in {"CONFIRMED", "COMPLETE"}) => proc'[p].pc = returned
  /\ (o.state \in {"FAILED", "DENIED"})
     => /\ proc'[p].pc = "ib_catch"
        /\ proc'[p].error = "Transaction " \o o.state
  /\ (o.state \notin TerminalStates /\ o.state # "THROWN")
     => IF proc[p].attempt + 1 = TxMaxAttempts
        THEN /\ proc'[p].pc = "ib_catch"
             /\ proc'[p].error = "Transaction timed out"
        ELSE /\ proc'[p].pc = waiting
             /\ proc'[p].attempt = proc[p].attempt + 1

\* C26: every waitForTransaction poll is one of at most maxAttempts; a poll
\* showing CONFIRMED or COMPLETE returns the transaction (with its txHash), one
\* showing FAILED or DENIED raises 'Transaction <state>' at once, and any other
\* state is followed by the next poll or, at poll number maxAttempts, by the
\* error 'Transaction timed out'.
C26_WaitForTransactionBudget ==
  [][ \A p \in Procs : \A o \in PollOutcomes :
        /\ IbWaitApprovePoll(p, o) => PollPost(p, o, "ib_wait_approve", "ib_burn")
        /\ IbWaitBurnPoll(p, o)
           => /\ PollPost(p, o, "ib_wait_burn", "ib_store_burn")
              /\ (o.state \in {"CONFIRMED", "COMPLETE"} /\ o.hasHash)
                 => proc'[p].txHash = TxHashOf(proc[p].txId) ]_vars

\* The burn transaction is about to be polled for the last permitted time (the
\* polls before showed it pending), after the approve transaction was returned.
C26_Witness ==
  \E p \in Procs :
    /\ proc[p].pc = "ib_wait_burn"
    /\ proc[p].attempt + 1 = TxMaxAttempts

\* ------------------------------- one executeBridgeFlow, everything succeeds
\* What a poll may show when the signing service confirms the transaction
\* within the poll budget: a confirmed record, with or without txHash, or,
\* before the last permitted poll, a pending one.
ConfirmingPolls(attempt) ==
  { o \in PollOutcomes :
      \/ o.state \in {"CONFIRMED", "COMPLETE"}
      \/ o.state = "SENT" /\ attempt + 1 < TxMaxAttempts }

\* What the oracle may answer when it reports completion within the attempt
\* budget: the complete message, or, before the last permitted query, 404, an
\* empty list or a pending message.
CompletingAnswers(attempt) ==
  { a \in AllOracleAnswers :
      \/ a = "complete"
      \/ a \in {"404", "empty", "pending"} /\ attempt + 1 < AttMaxAttempts }

\* The flow of FlowNext with a callback that does not raise, a signing service
\* that accepts and confirms every transaction, and an oracle that completes in
\* time.
HappyNext ==
  \/ /\ proc = <<>>
     /\ \E req \in GoodRequests, callback \in {"none", "returns"} :
          ExecuteBridgeFlowNotify(1, req, callback, FALSE)
  \/ \E p \in Procs : IbSetBurning(p)
  \/ \E p \in Procs : IbApprove(p) /\ proc'[p].pc = "ib_wait_approve"
  \/ \E p \in Procs : \E o \in ConfirmingPolls(proc[p].attempt) : IbWaitApprovePoll(p, o)
  \/ \E p \in Procs : IbBurn(p) /\ proc'[p].pc = "ib_wait_burn"
  \/ \E p \in Procs : \E o \in ConfirmingPolls(proc[p].attempt) : IbWaitBurnPoll(p, o)
  \/ \E p \in Procs : IbStoreBurn(p)
  \/ \E p \in Procs : EfRead(p)
  \/ \E p \in Procs : \E a \in CompletingAnswers(proc[p].attempt) : EfWaitAttestationAnswer(p, a)
  \/ \E p \in Procs : EfReady(p)
  \/ \E p \in Procs : FlowCompleteBridge(p)
  \/ \E p \in Procs : CbSetMinting(p)
  \/ \E p \in Procs : CbSubmit(p) /\ proc'[p].pc = "cb_wait"
  \/ \E p \in Procs : \E o \in ConfirmingPolls(proc[p].attempt) : CbWaitPoll(p, o)
  \/ \E p \in Procs : CbStore(p)
  \/ \E p \in Procs : FlowGetBridgeStatus(p)
  \/ \E t \in 1..MaxTx : OracleAdvance(t)

\* The event loop runs every continuation that is ready and the oracle goes
\* on: a step that stays possible is taken.
HappySpec == Init /\ [][HappyNext]_vars /\ WF_vars(HappyNext)

\* The statuses of the successful flow, in order.
FlowStatusOrder ==
  <<"pending", "burning", "waiting_attestation", "ready_to_mint", "minting",
    "completed">>

\* C27: when the signing service confirms every submitted transaction and the
\* oracle reports completion within the attempt budget, a flow that has started
\* ends returning a record with status completed and non-null burnTxHash and
\* mintTxHash, and every change of the stored status goes one place forward in
\* burning, waiting_attestation, ready_to_mint, minting, completed.
C27_HappyFlowCompletes ==
  /\ (\E p \in Procs : proc[p].op = "executeBridgeFlow")
     ~> (\E p \in Procs :
           /\ proc[p].op = "executeBridgeFlow"
           /\ proc[p].pc = "done"
           /\ proc[p].result.kind = "ok"
           /\ proc[p].result.value.status = "completed"
           /\ proc[p].result.value.burnTxHash # Null
           /\ proc[p].result.value.mintTxHash # Null)
  /\ [][ \A id \in TransferIds :
           transfers'[id].status # transfers[id].status
           => \E k \in 1..(Len(FlowStatusOrder) - 1) :
                /\ transfers[id].status = FlowStatusOrder[k]
                /\ transfers'[id].status = FlowStatusOrder[k + 1] ]_vars

\* The notifications of a flow that runs to its end, in order (379, 388, 399,
\* 403).
NotificationOrder == <<"burning", "waiting_attestation", "minting", "completed">>

\* s is a prefix of t
IsPrefix(s, t) == Len(s) <= Len(t) /\ SubSeq(t, 1, Len(s)) = s

\* Invocation p emits 'completed' in this step.
NotifiesCompleted(p) ==
  /\ Len(proc'[p].notified) > 0
  /\ proc'[p].notified[Len(proc'[p].notified)] = "completed"
  /\ (p > Len(proc) \/ proc'[p].notified # proc[p].notified)

\* C28: the notifications a flow has emitted are always a prefix of burning,
\* waiting_attestation, minting, completed, and 'completed' is emitted only
\* when the transfer is already stored as completed.
C28_NotificationsInOrder ==
  [][ \A p \in 1..Len(proc') :
        /\ IsPrefix(proc'[p].notified, NotificationOrder)
        /\ NotifiesCompleted(p)
           => /\ proc[p].transferId \in TransferIds
              /\ transfers[proc[p].transferId].status = "completed" ]_vars

\* A flow has emitted all four notifications and returned the completed record.
C28_Witness ==
  \E p \in Procs :
    /\ proc[p].op = "executeBridgeFlow"
    /\ proc[p].pc = "done"
    /\ proc[p].notified = NotificationOrder
    /\ proc[p].result.kind = "ok"
    /\ transfers[proc[p].transferId].status = "completed"

\* C29: the callback cannot influence the flow: at every notification, the
\* step the flow takes when the callback raises is the step it takes when the
\* callback returns (same store writes, same execution-client calls, same
\* position and result of the flow).
C29_CallbackCannotInfluence ==
  [][ /\ \A req \in GoodRequests :
           ExecuteBridgeFlowNotify(Len(proc) + 1, req, "raises", TRUE)
           => ExecuteBridgeFlowNotify(Len(proc) + 1, req, "raises", FALSE)
      /\ \A p \in Procs :
           /\ EfReadNotify(p, TRUE) => EfReadNotify(p, FALSE)
           /\ FlowCompleteBridgeNotify(p, TRUE) => FlowCompleteBridgeNotify(p, FALSE)
           /\ FlowGetBridgeStatusNotify(p, TRUE)
              => FlowGetBridgeStatusNotify(p, FALSE) ]_vars

\* The fields of a transfer that are set at creation only.
ImmutableFields ==
  {"id", "userId", "sourceChain", "destinationChain", "amount", "createdAt"}

\* C30: no step deletes a transfer record, and no step changes the id, userId,
\* sourceChain, destinationChain, amount or createdAt of a stored transfer.
C30_CreationFieldsImmutable ==
  [][ /\ Len(transfers') >= Len(transfers)
      /\ \A id \in TransferIds : \A f \in ImmutableFields :
           transfers'[id][f] = transfers[id][f] ]_vars

\* A transfer has been written after its creation, up to completed, and still
\* carries the id and the creation time it was created with.
C30_Witness ==
  \E id \in TransferIds :
    /\ transfers[id].status = "completed"
    /\ transfers[id].id = id
    /\ transfers[id].updatedAt > transfers[id].createdAt

\* ------------------------------------- one initiateBridge, any recipient
\* Recipient addresses a caller may pass: low bytes, bytes that wrap around
\* 255, and the all-zero and all-ones addresses.
RecipientAddresses ==
  { Address(0), Address(99), Address(240),
    [i \in 1..20 |-> 0], [i \in 1..20 |-> 255] }

\* One caller bridges to one of these recipients, or to their own wallet;
\* nothing else runs.
RecipientNext ==
  \/ /\ proc = <<>>
     /\ \E r \in RecipientAddresses \cup {Null} :
          InitiateBridge(1, BridgeRequest("u1", "ETH_SEPOLIA", "ARB_SEPOLIA", DefaultAmount, r))
  \/ \E p \in Procs : IbSetBurning(p)
  \/ \E p \in Procs : IbApprove(p)
  \/ \E p \in Procs : IbWaitApprove(p)
  \/ \E p \in Procs : IbBurn(p)
  \/ \E p \in Procs : IbWaitBurn(p)
  \/ \E p \in Procs : IbStoreBurn(p)
  \/ \E p \in Procs : IbCatch(p)

RecipientSpec == Init /\ [][RecipientNext]_vars

\* C31: the mint recipient of every burn call that is sent is 32 bytes long,
\* its 12 high-order bytes are zero and its 20 low-order bytes are the
\* destination address.
C31_RecipientIsLeftPadded ==
  [][ \A p \in Procs :
        ( /\ proc[p].pc = "ib_burn"
          /\ Len(execCalls') = Len(execCalls) + 1 )
        => LET mintRecipient == execCalls'[Len(execCalls')].abiParameters[3]
               address == destAddress(proc[p])
           IN /\ Len(address) = 20
              /\ Len(mintRecipient) = 32
              /\ \A i \in 1..12 : mintRecipient[i] = 0
              /\ \A i \in 1..20 : mintRecipient[12 + i] = address[i] ]_vars

\* A burn call has been sent whose mint recipient ends with the bytes of the
\* recipient address 0xf1 0xf2 ... that the caller passed.
C31_Witness ==
  \E k \in 1..Len(execCalls) :
    /\ execCalls[k].abiFunctionSignature =
         "depositForBurn(uint256,uint32,bytes32,address,bytes32,uint256,uint32)"
    /\ SubSeq(execCalls[k].abiParameters[3], 13, 32) = Address(240)
    /\ SubSeq(execCalls[k].abiParameters[3], 1, 12) = [i \in 1..12 |-> 0]

\* The positions of initiateBridge at which the approve request is sent or its
\* confirmation awaited.
ApprovePhase == {"ib_approve", "ib_wait_approve"}

BurnSignature == "depositForBurn(uint256,uint32,bytes32,address,bytes32,uint256,uint32)"

\* The burn calls sent so far for transfer id, in the store of calls cs.
BurnCallsFor(cs, id) ==
  { k \in 1..Len(cs) :
      cs[k].abiFunctionSignature = BurnSignature /\ cs[k].transferId = id }

\* C32: initiateBridge comes to send the burn call only from a poll of the
\* approve transaction, and never from a poll that showed anything but
\* CONFIRMED or COMPLETE; every burn call is sent by the
\* invocation that reached that point, after an accepted approve call for the
\* same transfer; and an approve whose submission or confirmation fails or
\* times out leads to the catch, from which the burn call is never reached.
C32_BurnOnlyAfterApproveConfirmed ==
  [][ /\ \A p \in Procs :
           /\ ( proc[p].pc # "ib_burn" /\ proc'[p].pc = "ib_burn" )
              => proc[p].pc = "ib_wait_approve"
           /\ \A o \in PollOutcomes :
                ( o.state \notin {"CONFIRMED", "COMPLETE"} /\ IbWaitApprovePoll(p, o) )
                => proc'[p].pc # "ib_burn"
           /\ ( /\ proc[p].pc \in ApprovePhase
                /\ proc'[p].pc \notin ApprovePhase \cup {"ib_burn"} )
              => /\ proc'[p].pc = "ib_catch"
                 /\ BurnCallsFor(execCalls', proc[p].transferId) = {}
           /\ ( proc[p].pc \in {"ib_catch", "done"} )
              => proc'[p].pc \in {"ib_catch", "done"}
      /\ \A id \in TransferIds :
           BurnCallsFor(execCalls', id) # BurnCallsFor(execCalls, id)
           => /\ \E p \in Procs :
                   proc[p].pc = "ib_burn" /\ proc[p].transferId = id
              /\ \E j \in 1..Len(execCalls) :
                   /\ execCalls[j].abiFunctionSignature = "approve(address,uint256)"
                   /\ execCalls[j].transferId = id
                   /\ execCalls[j].accepted ]_vars

\* An initiateBridge has ended because its approve transaction failed, and the
\* only call sent for its transfer is the approve call.
C32_Witness ==
  \E p \in Procs :
    /\ proc[p].op = "initiateBridge"
    /\ proc[p].pc = "done"
    /\ proc[p].result = Err("Transaction FAILED")
    /\ Len(execCalls) = 1
    /\ execCalls[1].abiFunctionSignature = "approve(address,uint256)"
    /\ BurnCallsFor(execCalls, proc[p].transferId) = {}

\* C33: whenever an invocation is about to send the approve or the burn call,
\* or has one of them in flight, the stored status of its transfer is burning;
\* whenever it is about to send the receiveMessage call, or has it in flight,
\* the stored status is minting (invocations do not overlap).
C33_StatusStoredBeforeCall ==
  \A p \in Procs :
    /\ proc[p].pc \in BurnPhase
       => transfers[proc[p].transferId].status = "burning"
    /\ proc[p].pc \in MintPhase
       => transfers[proc[p].transferId].status = "minting"

\* The receiveMessage call of a flow is in flight, after its approve and burn
\* calls, and the transfer is stored as minting.
C33_Witness ==
  \E p \in Procs :
    /\ proc[p].pc = "cb_wait"
    /\ Len(execCalls) = 3
    /\ execCalls[3].abiFunctionSignature = "receiveMessage(bytes,bytes)"
    /\ execCalls[3].transferId = proc[p].transferId
    /\ transfers[proc[p].transferId].status = "minting"

\* C34: a pending first message advances neither getBridgeStatus nor
\* waitForAttestation, and a step that stores ready_to_mint for a transfer is
\* taken only when the oracle holds the complete message for its burn.
C34_NoReadyWhilePending ==
  [][ /\ \A p \in Procs :
           /\ GsCheckAnswer(p, "pending")
              => proc'[p].pc # "gs_write" /\ transfers' = transfers
           /\ EfWaitAttestationAnswer(p, "pending")
              => proc'[p].pc # "ef_ready" /\ transfers' = transfers
      /\ \A id \in TransferIds :
           ( /\ transfers[id].status # "ready_to_mint"
             /\ transfers'[id].status = "ready_to_mint" )
           => /\ Truthy(transfers[id].burnTxHash)
              /\ oracle[OracleKey(transfers[id].burnTxHash)] = "complete" ]_vars

\* A flow has asked the oracle at least once, the oracle holds a pending
\* message for the burn, and the transfer is still waiting_attestation.
C34_Witness ==
  \E p \in Procs :
    /\ proc[p].pc = "ef_wait_attestation"
    /\ proc[p].attempt > 0
    /\ oracle[OracleKey(proc[p].transfer.burnTxHash)] = "pending"
    /\ transfers[proc[p].transferId].status = "waiting_attestation"

\* message and attestation of a record are both null or both non-null, and
\* both non-null when the record is ready_to_mint or completed.
PayloadPaired(t) ==
  /\ (t.message = Null) <=> (t.attestation = Null)
  /\ t.status \in {"ready_to_mint", "completed"}
     => t.message # Null /\ t.attestation # Null

\* C35: every stored transfer has message and attestation both null or both
\* non-null, and both non-null in ready_to_mint and completed; a transfer that
\* goes from ready_to_mint to minting keeps both, and no step sets either back
\* to null.
C35_MessageAndAttestationTogether ==
  [][ \A id \in 1..Len(transfers') :
        /\ PayloadPaired(transfers'[id])
        /\ id \in TransferIds
           => /\ ( transfers[id].status = "ready_to_mint"
                   /\ transfers'[id].status = "minting" )
                 => /\ transfers'[id].message # Null
                    /\ transfers'[id].attestation # Null
              /\ transfers[id].message # Null => transfers'[id].message # Null
              /\ transfers[id].attestation # Null
                 => transfers'[id].attestation # Null ]_vars

\* A transfer that went through ready_to_mint is stored as minting with the
\* oracle's message and attestation.
C35_Witness ==
  \E id \in TransferIds :
    /\ transfers[id].status = "minting"
    /\ Truthy(transfers[id].burnTxHash)
    /\ transfers[id].message = MessageOf(transfers[id].burnTxHash)
    /\ transfers[id].attestation = AttestationOf(transfers[id].burnTxHash)

\* The chain roles of one contract call `c` made for transfer `t` by an
\* invocation of user `u`.
RolesKept(c, t, u) ==
  /\ c.abiFunctionSignature = "approve(address,uint256)"
     => /\ c.walletId = getWalletIdForChainKey(t.userId, t.sourceChain)
        /\ c.contractAddress = CHAINS[t.sourceChain].usdc
        /\ c.abiParameters[1] = CHAINS[t.sourceChain].tokenMessenger
  /\ c.abiFunctionSignature = BurnSignature
     => /\ c.walletId = getWalletIdForChainKey(t.userId, t.sourceChain)
        /\ c.contractAddress = CHAINS[t.sourceChain].tokenMessenger
        /\ c.abiParameters[2] = CHAINS[t.destinationChain].cctpDomain
        /\ c.abiParameters[4] = CHAINS[t.sourceChain].usdc
  /\ c.abiFunctionSignature = "receiveMessage(bytes,bytes)"
     => /\ c.walletId = getWalletIdForChainKey(u, t.destinationChain)
        /\ c.contractAddress = CHAINS[t.destinationChain].messageTransmitter

\* The positions at which an invocation queries the attestation oracle.
QueryPositions == {"gs_check", "ef_wait_attestation"}

\* C36: chain roles are never swapped: every approve and burn call is sent with
\* the user's source-chain wallet to the source chain's token and messenger
\* contracts and the burn carries the destination chain's domain id; every
\* receiveMessage call is sent with the calling user's destination-chain wallet
\* to the destination chain's message transmitter; every attestation query of
\* getBridgeStatus and of the flow uses the domain id of the transfer's source
\* chain.
C36_ChainRolesNotSwapped ==
  [][ /\ Len(execCalls') = Len(execCalls) + 1
         => \E p \in Procs :
              /\ proc'[p] # proc[p]
              /\ proc[p].transferId \in 1..Len(transfers)
              /\ execCalls'[Len(execCalls')].transferId = proc[p].transferId
              /\ RolesKept(execCalls'[Len(execCalls')],
                           transfers[proc[p].transferId], proc[p].userId)
      /\ \A p \in 1..Len(proc') :
           proc'[p].pc \in QueryPositions
           => /\ proc'[p].transferId \in 1..Len(transfers')
              /\ proc'[p].sourceDomain =
                   CHAINS[transfers'[proc'[p].transferId].sourceChain].cctpDomain ]_vars

\* A transfer from ARB_SEPOLIA to ETH_SEPOLIA has been approved, burnt with
\* domain id 0, read by getBridgeStatus and minted with the ETH wallet.
C36_Witness ==
  \E id \in TransferIds, p \in Procs :
    /\ transfers[id].sourceChain = "ARB_SEPOLIA"
    /\ transfers[id].destinationChain = "ETH_SEPOLIA"
    /\ proc[p].op = "getBridgeStatus" /\ proc[p].transferId = id
    /\ \E i, j, k \in 1..Len(execCalls) :
         /\ execCalls[i].transferId = id /\ execCalls[j].transferId = id
         /\ execCalls[k].transferId = id
         /\ execCalls[i].abiFunctionSignature = "approve(address,uint256)"
         /\ execCalls[j].abiFunctionSignature = BurnSignature
         /\ execCalls[k].abiFunctionSignature = "receiveMessage(bytes,bytes)"
         /\ execCalls[k].walletId = "w:u1:ETH"
         /\ execCalls[j].abiParameters[2] = 0

\* ------------------------------------------- the signing client's key cache
\* executeContract calls followed in the client.
MaxCalls == 3

\* response.data.data.publicKey: the signing service's key, which is stable.
PublicKeyPem == <<"-----BEGIN PUBLIC KEY-----">>

\* The contract calls the client is asked to execute.
CallInputs ==
  { ContractCall("w:u1:ETH", CHAINS["ETH_SEPOLIA"].usdc, "approve(address,uint256)",
                 <<CHAINS["ETH_SEPOLIA"].tokenMessenger, parseUsdcAmount(DefaultAmount)>>,
                 accepted, 0) : accepted \in BOOLEAN }

ClientCalls == 1..Len(circleWalletService.calls)

\* 179, 45, 36-38: executeContract is called with `call`; fetchPublicKey returns
\* the cached key if there is one, else it issues GET /config/entity/publicKey
\* and waits for the response.
EcStart(c, call) ==
  /\ c = Len(circleWalletService.calls) + 1
  /\ c <= MaxCalls
  /\ circleWalletService' =
       IF Truthy(circleWalletService.publicKey)
       THEN [circleWalletService EXCEPT
               !.calls = Append(@, [pc |-> "ec_post", call |-> call, request |-> 0])]
       ELSE [circleWalletService EXCEPT
               !.keyRequests = Append(@, "pending"),
               !.calls = Append(@, [pc |-> "ec_key", call |-> call,
                                    request |-> Len(circleWalletService.keyRequests) + 1])]
  /\ UNCHANGED <<transfers, proc, execCalls, oracle, clock, fileStore>>

\* 38-41: the public-key request of call c returns: the key is stored and the
\* call goes on to its request; or it fails and executeContract rejects.
EcKeyAnswer(c, ok) ==
  /\ circleWalletService.calls[c].pc = "ec_key"
  /\ LET r == circleWalletService.calls[c].request IN
     circleWalletService' =
       IF ok
       THEN [circleWalletService EXCEPT
               !.publicKey = PublicKeyPem,
               !.keyRequests[r] = "returned",
               !.calls[c].pc = "ec_post"]
       ELSE [circleWalletService EXCEPT
               !.keyRequests[r] = "failed",
               !.calls[c].pc = "rejected"]
  /\ UNCHANGED <<transfers, proc, execCalls, oracle, clock, fileStore>>

EcKey(c) ==
  /\ circleWalletService.calls[c].pc = "ec_key"
  /\ \E ok \in BOOLEAN : EcKeyAnswer(c, ok)

\* 46-57, 181-216: the secret is encrypted under the key and the
\* contractExecution request is posted; the call returns the transaction or
\* rejects.
EcPost(c) ==
  /\ circleWalletService.calls[c].pc = "ec_post"
  /\ Len(execCalls) < MaxTx
  /\ executeContract(circleWalletService.calls[c].call)
  /\ circleWalletService' =
       [circleWalletService EXCEPT
          !.calls[c].pc = IF circleWalletService.calls[c].call.accepted
                          THEN "returned" ELSE "rejected"]
  /\ UNCHANGED <<transfers, proc, oracle, clock, fileStore>>

\* Callers call executeContract at any time; calls overlap at their awaits.
KeyNext ==
  \/ \E call \in CallInputs : EcStart(Len(circleWalletService.calls) + 1, call)
  \/ \E c \in ClientCalls : EcKey(c)
  \/ \E c \in ClientCalls : EcPost(c)

KeySpec == Init /\ [][KeyNext]_vars

\* The public-key requests that have not failed: in flight or returned.
LiveKeyRequests ==
  { r \in 1..Len(circleWalletService.keyRequests) :
      circleWalletService.keyRequests[r] # "failed" }

\* C37: apart from requests that failed, the client issues no more than one
\* public-key request, whatever the number of executeContract calls and also
\* when calls arrive while the first request is still in flight.
C37_OneKeyRequest == Cardinality(LiveKeyRequests) <= 1

\* -------------------------------------------------- response normalization
\* A value that is undefined or null where an object is expected.
Undefined == [kind |-> "undefined"]

\* The ids a record of the signing service may hold: none, '' and a real id.
ResponseIds == {Null, EmptyStr, <<"tx-1">>}

\* A transaction record found at `place`, or nothing there.
TransactionObjects(place) ==
  {Undefined} \cup
  { [kind |-> "object", id |-> i, state |-> place] : i \in ResponseIds }

DataObjects ==
  {Undefined} \cup
  { [kind |-> "object", id |-> i, state |-> "data", transaction |-> t] :
      i \in ResponseIds, t \in TransactionObjects("data.transaction") }

\* The bodies the signing service may answer with.
Responses ==
  {Undefined} \cup
  { [kind |-> "object", id |-> i, state |-> "top", data |-> d, transaction |-> t] :
      i \in ResponseIds, d \in DataObjects, t \in TransactionObjects("transaction") }

\* o?.data, o?.transaction, o?.id
OptData(o) == IF "data" \in DOMAIN o THEN o.data ELSE Undefined
OptTransaction(o) == IF "transaction" \in DOMAIN o THEN o.transaction ELSE Undefined
OptId(o) == IF "id" \in DOMAIN o THEN o.id ELSE Null

Returned(v) == [kind |-> "return", transaction |-> v]
Thrown(e) == [kind |-> "throw", error |-> e]

\* A faulty normalization: the top-level object is tried first.
extractTransaction_TopFirst(responseData) ==
  IF Truthy(OptId(responseData)) THEN Returned(responseData)
  ELSE IF Truthy(OptId(OptTransaction(OptData(responseData))))
  THEN Returned(OptTransaction(OptData(responseData)))
  ELSE IF Truthy(OptId(OptData(responseData)))
  THEN Returned(OptData(responseData))
  ELSE IF Truthy(OptId(OptTransaction(responseData)))
  THEN Returned(OptTransaction(responseData))
  ELSE Thrown("Could not extract transaction from Circle response")

\* 63-86: extractTransaction(responseData)
extractTransaction(responseData) ==
  IF Truthy(OptId(OptTransaction(OptData(responseData))))
  THEN Returned(OptTransaction(OptData(responseData)))
  ELSE IF Truthy(OptId(OptData(responseData)))
  THEN Returned(OptData(responseData))
  ELSE IF Truthy(OptId(OptTransaction(responseData)))
  THEN Returned(OptTransaction(responseData))
  ELSE IF Truthy(OptId(responseData)) THEN Returned(responseData)
  ELSE Thrown("Could not extract transaction from Circle response")

\* 219-220: getTransaction(transactionId) sends its request.
GtStart(c) ==
  /\ c = Len(circleWalletService.calls) + 1
  /\ c <= MaxCalls
  /\ circleWalletService' =
       [circleWalletService EXCEPT
          !.calls = Append(@, [pc |-> "gt_wait", response |-> Undefined,
                               result |-> Thrown("")])]
  /\ UNCHANGED <<transfers, proc, execCalls, oracle, clock, fileStore>>

\* 220-222: the service answers with `responseData`; the call returns the
\* extracted transaction or rejects.
GtAnswer(c, responseData) ==
  /\ circleWalletService.calls[c].pc = "gt_wait"
  /\ circleWalletService' =
       [circleWalletService EXCEPT
          !.calls[c] =
             [pc |-> IF extractTransaction(responseData).kind = "return"
                     THEN "returned" ELSE "rejected",
              response |-> responseData,
              result |-> extractTransaction(responseData)]]
  /\ UNCHANGED <<transfers, proc, execCalls, oracle, clock, fileStore>>

\* One getTransaction call, answered with any body.
ExtractNext ==
  \/ /\ circleWalletService.calls = <<>>
     /\ GtStart(1)
  \/ \E c \in ClientCalls, responseData \in Responses : GtAnswer(c, responseData)

ExtractSpec == Init /\ [][ExtractNext]_vars

\* The records of a response in the order of their priority.
Candidates(responseData) ==
  << OptTransaction(OptData(responseData)), OptData(responseData),
     OptTransaction(responseData), responseData >>

\* C38: the normalization returns the first of data.transaction, data,
\* transaction and the top-level object that carries an id, raises an error
\* when none of the four carries one, and never returns a record without an id.
C38_FirstRecordWithId ==
  \A c \in ClientCalls :
    LET call == circleWalletService.calls[c]
        cand == Candidates(call.response)
        withId == { k \in 1..4 : Truthy(OptId(cand[k])) }
    IN call.pc # "gt_wait"
       => /\ withId = {}
             => /\ call.pc = "rejected"
                /\ call.result =
                     Thrown("Could not extract transaction from Circle response")
          /\ withId # {}
             => /\ call.pc = "returned"
                /\ call.result.kind = "return"
                /\ Truthy(OptId(call.result.transaction))
                /\ \E k \in withId :
                     /\ \A j \in withId : k <= j
                     /\ call.result.transaction = cand[k]

\* A body whose data and top-level object both carry an id, while
\* data.transaction carries none, has been normalized to its data record.
C38_Witness ==
  \E c \in ClientCalls :
    LET call == circleWalletService.calls[c] IN
    /\ call.pc = "returned"
    /\ Truthy(OptId(call.response))
    /\ Truthy(OptId(OptData(call.response)))
    /\ OptTransaction(OptData(call.response)) # Undefined
    /\ ~Truthy(OptId(OptTransaction(OptData(call.response))))
    /\ call.result.transaction = OptData(call.response)

\* ----------------------------------------------------- complete endpoint
\* part_000 116-118: POST /:transferId/complete calls
\* getBridgeStatus(transferId).
CompleteEndpoint(p, transferId) ==
  /\ p = Len(proc) + 1
  /\ GsRead(p, [IdleProc EXCEPT !.op = "POST /:transferId/complete",
                                !.transferId = transferId])

\* A faulty handler: the status of the refresh is not tested.
CeStatus_NoStatusTest(p) ==
  /\ proc[p].pc = "ce_status"
  /\ Become(p, [proc[p] EXCEPT
                  !.pc = "ce_complete",
                  !.transfer = getTransferById(transfers, proc[p].transferId)])
  /\ UNCHANGED <<transfers, execCalls, oracle, clock>>

\* part_000 120-128: a status other than ready_to_mint is answered with 400;
\* else the handler reads the transfer.
CeStatus(p) ==
  /\ proc[p].pc = "ce_status"
  /\ LET me == proc[p] IN
     IF me.result.value.status # "ready_to_mint"
     THEN Settle(p, me, Err("Cannot complete transfer in status: "
                            \o me.result.value.status))
     ELSE Become(p, [me EXCEPT
                       !.pc = "ce_complete",
                       !.transfer = getTransferById(transfers, me.transferId)])
  /\ UNCHANGED <<transfers, execCalls, oracle, clock>>

\* part_000 129-149: no transfer is answered with 404, a status without message
\* or attestation with 400; else completeBridge(transferId, transfer.userId,
\* status.message, status.attestation) is called, whose result or error is the
\* answer (151-160).
CeComplete(p) ==
  /\ proc[p].pc = "ce_complete"
  /\ LET me == proc[p]
         status == me.result.value
     IN IF me.transfer = NoTransfer
        THEN /\ Settle(p, me, Err("Transfer not found"))
             /\ UNCHANGED <<transfers, execCalls, oracle, clock>>
        ELSE IF ~Truthy(status.message) \/ ~Truthy(status.attestation)
        THEN /\ Settle(p, me, Err("Missing message or attestation"))
             /\ UNCHANGED <<transfers, execCalls, oracle, clock>>
        ELSE CbRead(p, [me EXCEPT !.userId = me.transfer.userId,
                                  !.message = status.message,
                                  !.attestation = status.attestation])

\* One bridge is initiated; then the complete endpoint is called, one call after
\* the other, for that transfer or for an unknown id.
EndpointNext ==
  \/ /\ proc = <<>>
     /\ \E req \in GoodRequests : InitiateBridge(1, req)
  \/ /\ proc # <<>>
     /\ AllDone
     /\ Len(proc) <= MaxInvocations
     /\ \E id \in TransferIdInputs : CompleteEndpoint(Len(proc) + 1, id)
  \/ \E p \in Procs : IbSetBurning(p)
  \/ \E p \in Procs : IbApprove(p)
  \/ \E p \in Procs : IbWaitApprove(p)
  \/ \E p \in Procs : IbBurn(p)
  \/ \E p \in Procs : IbWaitBurn(p)
  \/ \E p \in Procs : IbStoreBurn(p)
  \/ \E p \in Procs : IbCatch(p)
  \/ \E p \in Procs : GsCheck(p)
  \/ \E p \in Procs : GsWrite(p)
  \/ \E p \in Procs : GsReread(p)
  \/ \E p \in Procs : CeStatus(p)
  \/ \E p \in Procs : CeComplete(p)
  \/ \E p \in Procs : CbSetMinting(p)
  \/ \E p \in Procs : CbSubmit(p)
  \/ \E p \in Procs : CbWait(p)
  \/ \E p \in Procs : CbStore(p)
  \/ \E p \in Procs : CbCatch(p)
  \/ \E t \in 1..MaxTx : OracleAdvance(t)

EndpointSpec == Init /\ [][EndpointNext]_vars

\* The positions of an invocation inside completeBridge.
CompletePhase == {"cb_set_minting", "cb_submit", "cb_wait", "cb_store", "cb_catch"}

\* The receiveMessage calls among `cs`.
MintCalls(cs) ==
  { i \in 1..Len(cs) : cs[i].abiFunctionSignature = "receiveMessage(bytes,bytes)" }

\* C39: the complete endpoint enters completeBridge only with a refreshed status
\* of ready_to_mint whose message and attestation are those stored for the
\* transfer; when the refreshed status is anything else the endpoint answers
\* with an error in that step, and then no receiveMessage call is sent and the
\* stored status is not set to minting.
C39_CompleteOnlyWhenReady ==
  [][ /\ ( \/ MintCalls(execCalls') # MintCalls(execCalls)
           \/ \E id \in TransferIds :
                /\ transfers[id].status # "minting"
                /\ transfers'[id].status = "minting" )
         => \E p \in Procs :
              /\ proc[p].op = "POST /:transferId/complete"
              /\ proc[p].pc \in {"cb_set_minting", "cb_submit"}
              /\ proc'[p] # proc[p]
      /\ \A p \in Procs :
        proc[p].op = "POST /:transferId/complete"
        => /\ proc'[p].pc \in CompletePhase
              => /\ proc'[p].result.kind = "ok"
                 /\ proc'[p].result.value.status = "ready_to_mint"
                 /\ Truthy(proc'[p].message) /\ Truthy(proc'[p].attestation)
                 /\ proc[p].pc \notin CompletePhase
                    => /\ transfers[proc[p].transferId].status = "ready_to_mint"
                       /\ transfers[proc[p].transferId].message = proc'[p].message
                       /\ transfers[proc[p].transferId].attestation
                            = proc'[p].attestation
           /\ ( /\ proc[p].pc = "ce_status"
                /\ proc[p].result.value.status # "ready_to_mint"
                /\ proc'[p] # proc[p] )
              => /\ proc'[p].pc = "done"
                 /\ proc'[p].result.kind = "error"
                 /\ execCalls' = execCalls
                 /\ transfers' = transfers ]_vars

\* A first call of the endpoint sent the mint, which failed; a second call for
\* the transfer, which still holds its message and attestation, was refused
\* with an error naming the status failed.
C39_Witness ==
  \E p, q \in Procs :
    /\ p < q
    /\ proc[p].op = "POST /:transferId/complete"
    /\ proc[q].op = "POST /:transferId/complete"
    /\ proc[p].transferId \in TransferIds
    /\ proc[q].transferId = proc[p].transferId
    /\ MintCalls(execCalls) # {}
    /\ transfers[proc[p].transferId].status = "failed"
    /\ Truthy(transfers[proc[p].transferId].message)
    /\ proc[q].pc = "done"
    /\ proc[q].result = Err("Cannot complete transfer in status: failed")

\* ------------------------------------------- the two transfer stores
\* Transfers followed in the two stores.
MaxStored == 2

\* The instants new Date() shows: calls made at the same instant, and later ones.
Instants == {1, 2}

\* File-backed store, 553-577: createTransfer
FileCreateTransfer(fs, userId, sourceChain, destinationChain, amount, now) ==
  LET transfer ==
        [id |-> Len(fs.transfers) + 1, userId |-> userId,
         sourceChain |-> sourceChain, destinationChain |-> destinationChain,
         amount |-> amount, status |-> "pending", burnTxHash |-> Null,
         mintTxHash |-> Null, message |-> Null, attestation |-> Null,
         createdAt |-> now, updatedAt |-> now]
  IN [transfers |-> Append(fs.transfers, transfer),
      transfersByUser |-> [fs.transfersByUser EXCEPT
                             ![userId] = Append(@, transfer.id)]]

\* File-backed store, 579-591: updateTransfer
FileUpdateTransfer(fs, id, updates, now) ==
  IF id \in 1..Len(fs.transfers)
  THEN [fs EXCEPT !.transfers[id] =
          [f \in DOMAIN fs.transfers[id] |->
             IF f = "updatedAt" THEN now
             ELSE IF f \in DOMAIN updates THEN updates[f]
             ELSE fs.transfers[id][f]]]
  ELSE fs

\* File-backed store, 593-595: getTransferById
FileGetTransferById(fs, id) ==
  IF id \in 1..Len(fs.transfers) THEN fs.transfers[id] ELSE NoTransfer

\* Array.prototype.sort with (a, b) => b.createdAt - a.createdAt: a stable
\* sort, newest first; InsertNewestFirst puts t behind the records that are
\* not older than it.
InsertNewestFirst(sorted, t) ==
  LET before == SelectSeq(sorted, LAMBDA x : x.createdAt >= t.createdAt)
      after == SelectSeq(sorted, LAMBDA x : x.createdAt < t.createdAt)
  IN before \o <<t>> \o after

RECURSIVE SortNewestFirst(_)
SortNewestFirst(ts) ==
  IF ts = <<>> THEN <<>>
  ELSE InsertNewestFirst(SortNewestFirst(SubSeq(ts, 1, Len(ts) - 1)), ts[Len(ts)])

\* A faulty listing: the records are returned in the order of transfersByUser.
FileGetTransfersByUser_Unsorted(fs, userId) ==
  [i \in 1..Len(fs.transfersByUser[userId]) |->
     fs.transfers[fs.transfersByUser[userId][i]]]

\* File-backed store, 597-603: getTransfersByUser
FileGetTransfersByUser(fs, userId) ==
  SortNewestFirst(
    SelectSeq([i \in 1..Len(fs.transfersByUser[userId]) |->
                 FileGetTransferById(fs, fs.transfersByUser[userId][i])],
              LAMBDA t : t # NoTransfer))

\* status is 'completed' or 'failed'
Finished(t) == t.status \in {"completed", "failed"}

\* File-backed store, 605-615: getPendingTransfers, getCompletedTransfers
FileGetPendingTransfers(fs, userId) ==
  SelectSeq(FileGetTransfersByUser(fs, userId), LAMBDA t : ~Finished(t))

FileGetCompletedTransfers(fs, userId) ==
  SelectSeq(FileGetTransfersByUser(fs, userId), LAMBDA t : Finished(t))

\* find(...).sort({ createdAt: -1 }): the documents `docs` in an order in
\* which createdAt never grows; the code fixes no order among documents of
\* equal createdAt, so every such order is a possible result.
SortedNewestFirst(docs) ==
  LET n == Cardinality(docs) IN
  { s \in [1..n -> docs] :
      \A i \in 1..n, j \in 1..n :
        i < j => s[i] # s[j] /\ s[i].createdAt >= s[j].createdAt }

\* Durable store, 254-273: the results getTransfersByUser, getPendingTransfers
\* and getCompletedTransfers may give.
getTransfersByUser(ts, userId) ==
  SortedNewestFirst({ ts[i] : i \in { k \in 1..Len(ts) : ts[k].userId = userId } })

getPendingTransfers(ts, userId) ==
  SortedNewestFirst({ ts[i] : i \in { k \in 1..Len(ts) :
                        ts[k].userId = userId /\ ~Finished(ts[k]) } })

getCompletedTransfers(ts, userId) ==
  SortedNewestFirst({ ts[i] : i \in { k \in 1..Len(ts) :
                        ts[k].userId = userId /\ Finished(ts[k]) } })

\* The updates the orchestrator makes.
UpdateInputs ==
  { [status |-> "waiting_attestation", burnTxHash |-> TxHashOf(1)],
    [status |-> "completed", mintTxHash |-> TxHashOf(2),
     message |-> MessageOf(TxHashOf(1)), attestation |-> AttestationOf(TxHashOf(1))],
    [status |-> "failed"] }

\* Time passes between two calls.
StTick ==
  /\ clock + 1 \in Instants
  /\ clock' = clock + 1
  /\ UNCHANGED <<transfers, proc, execCalls, oracle, circleWalletService, fileStore>>

\* createTransfer(userId, ...) on both stores at the same instant
StCreateTransfer(userId) ==
  /\ Len(transfers) < MaxStored
  /\ transfers' = createTransfer(transfers, userId, "ETH_SEPOLIA", "ARB_SEPOLIA",
                                 DefaultAmount, clock)
  /\ fileStore' = FileCreateTransfer(fileStore, userId, "ETH_SEPOLIA",
                                     "ARB_SEPOLIA", DefaultAmount, clock)
  /\ UNCHANGED <<proc, execCalls, oracle, clock, circleWalletService>>

\* updateTransfer(id, updates) on both stores at the same instant
StUpdateTransfer(id, updates) ==
  /\ transfers' = updateTransfer(transfers, id, updates, clock)
  /\ fileStore' = FileUpdateTransfer(fileStore, id, updates, clock)
  /\ UNCHANGED <<proc, execCalls, oracle, clock, circleWalletService>>

\* The ids a caller may ask for: the stored ones and an unknown one.
StoredIdInputs == 1..(MaxStored + 1)

\* Any sequence of createTransfer and updateTransfer calls, each made on both
\* stores; the reads are compared in every state.
StoreNext ==
  \/ StTick
  \/ \E userId \in Users : StCreateTransfer(userId)
  \/ \E id \in StoredIdInputs, updates \in UpdateInputs :
       StUpdateTransfer(id, updates)

StoreSpec == Init /\ [][StoreNext]_vars

Range(s) == { s[i] : i \in 1..Len(s) }

\* The reads of the two stores give the same transfers, in the same order.
ReadsAgree ==
  /\ \A id \in StoredIdInputs :
       getTransferById(transfers, id) = FileGetTransferById(fileStore, id)
  /\ \A userId \in Users :
       /\ getTransfersByUser(transfers, userId)
            = { FileGetTransfersByUser(fileStore, userId) }
       /\ getPendingTransfers(transfers, userId)
            = { FileGetPendingTransfers(fileStore, userId) }
       /\ getCompletedTransfers(transfers, userId)
            = { FileGetCompletedTransfers(fileStore, userId) }

\* The reads of the two stores give the same transfers; each listing of the
\* file-backed store is one of the orders the durable store may give, which
\* differ only among transfers of equal createdAt.
ReadsAgreeUpToTies ==
  /\ \A id \in StoredIdInputs :
       getTransferById(transfers, id) = FileGetTransferById(fileStore, id)
  /\ \A userId \in Users :
       /\ FileGetTransfersByUser(fileStore, userId)
            \in getTransfersByUser(transfers, userId)
       /\ FileGetPendingTransfers(fileStore, userId)
            \in getPendingTransfers(transfers, userId)
       /\ FileGetCompletedTransfers(fileStore, userId)
            \in getCompletedTransfers(transfers, userId)

\* The pending and the completed listing of a user split the user's listing,
\* which holds the user's transfers.
ListingsPartition ==
  \A userId \in Users :
    LET all == Range(FileGetTransfersByUser(fileStore, userId))
        pending == Range(FileGetPendingTransfers(fileStore, userId))
        completed == Range(FileGetCompletedTransfers(fileStore, userId))
    IN /\ pending \cap completed = {}
       /\ pending \cup completed = all
       /\ all = { t \in Range(fileStore.transfers) : t.userId = userId }

\* updateTransfer(id, updates) of an unknown id changes neither store; of a
\* known id it stores the updates, sets updatedAt to the instant of the call
\* and keeps createdAt, in both stores.
UpdateBumps(id, updates) ==
  IF id \in 1..Len(transfers)
  THEN /\ Len(transfers') = Len(transfers)
       /\ \A t \in {transfers'[id], fileStore'.transfers[id]} :
            /\ t.updatedAt = clock
            /\ t.createdAt = transfers[id].createdAt
            /\ t.status = updates.status
  ELSE transfers' = transfers /\ fileStore' = fileStore

\* C40 as stated: after every sequence of calls each read returns the same
\* transfers, in the same order, from both stores.
C40_StoresAgree == ReadsAgree

\* C40: after every sequence of createTransfer and updateTransfer calls,
\* getTransferById returns the same record from both stores and every listing
\* returns the same transfers, newest first, in the same order except among
\* transfers of equal createdAt; pending and completed listings partition the
\* user's transfers; an update of an unknown id changes neither store, an
\* update of a known id sets updatedAt to the instant of the call.
C40_StoresAgreeUpToTies ==
  /\ [](ReadsAgreeUpToTies /\ ListingsPartition)
  /\ [][ \A id \in StoredIdInputs, updates \in UpdateInputs :
           StUpdateTransfer(id, updates) => UpdateBumps(id, updates) ]_vars

\* u1 holds an older transfer that is completed and a newer one that is
\* pending: both stores list the newer one first.
C40_Witness ==
  /\ Len(transfers) = 2
  /\ transfers[1].userId = "u1" /\ transfers[2].userId = "u1"
  /\ transfers[1].createdAt < transfers[2].createdAt
  /\ transfers[1].status = "completed" /\ transfers[2].status = "pending"
  /\ FileGetTransfersByUser(fileStore, "u1") = <<transfers[2], transfers[1]>>
  /\ getTransfersByUser(transfers, "u1") = { <<transfers[2], transfers[1]>> }
  /\ FileGetCompletedTransfers(fileStore, "u1") = <<transfers[1]>>
====
